---- MODULE Spec2Model ----
(***************************************************************************)
(* Revault transactions (src/src/transactions.rs): the PSBT-wrapping       *)
(* transaction variants, their constructors' fee / dust arithmetic, the    *)
(* BIP174 Signer (add_signature) and Finalizer (finalize) roles, and the   *)
(* chain builders.                                                         *)
(*                                                                         *)
(* Scripts, keys and signatures are abstract values.  A P2WSH script       *)
(* pubkey is the tagged hash of its witness script, a P2WPKH script        *)
(* pubkey the tagged hash of its key.  A raw signature is the DER          *)
(* encoding followed by the sighash byte.                                  *)
(***************************************************************************)
EXTENDS Integers, Sequences, FiniteSets, TLC

VARIABLES
    kind,    \* which variant `psbt` is wrapped as ("None" before construction)
    psbt,    \* the wrapped rust-bitcoin PSBT (NoPsbt before construction)
    chain,   \* the tuple last returned by a chain builder (<<>> if none)
    ret,     \* what the last call returned
    made,    \* the constructor or chain builder last called, with its arguments
    nsigs    \* number of add_signature calls that inserted a signature

vars == <<kind, psbt, chain, ret, made, nsigs>>

(***************************************************************************)
(* Protocol constants.                                                     *)
(***************************************************************************)
UNVAULT_CPFP_VALUE == 30000
UNVAULT_TX_FEERATE == 6
REVAULTING_TX_FEERATE == 22
DUST_LIMIT == 200000
INSANE_FEES == 20000000
TX_VERSION == 2

(***************************************************************************)
(* Bounds of the model.                                                    *)
(***************************************************************************)
\* successful add_signature calls explored on one structure
MaxSigs == 2
\* how far around each fee / dust threshold the funding values are drawn
Slack == 1
\* the relative timelock (older()) of the unvault descriptor
UnvaultCsv == 3

\* Option<T>: None is the empty tuple, Some(x) the one-element tuple
None == <<>>
Some(x) == <<x>>
IsSome(o) == o # <<>>
Unwrap(o) == o[1]

\* no structure (nothing constructed yet, or the call returned none)
NoPsbt == [inputs |-> <<>>, outputs |-> <<>>, unsigned_tx |-> None]

(***************************************************************************)
(* Keys, signatures, sighash types.                                        *)
(***************************************************************************)
Stakeholders == {"stk1", "stk2"}
Managers == {"man1"}
FeebumpKey == "fb"
Keys == Stakeholders \cup Managers \cup {FeebumpKey}

\* add_signature does not verify the signature: "good" is one the script
\* interpreters accept for its key and input, "bad" one they reject.
Sigs == {"good", "bad"}

SigHashTypes == {"All", "AllPlusAnyoneCanPay"}

\* SigHashType::as_u32
as_u32(t) ==
    CASE t = "All" -> 1
      [] t = "AllPlusAnyoneCanPay" -> 129

(***************************************************************************)
(* Scripts and transaction outputs (txouts.rs, scripts.rs).                *)
(***************************************************************************)
\* Script::to_v0_p2wsh / Address::p2wsh(..).script_pubkey()
to_v0_p2wsh(ws) == [h |-> ws, kind |-> "p2wsh"]
p2wpkh(key) == [h |-> key, kind |-> "p2wpkh"]

is_v0_p2wsh(spk) == spk.kind = "p2wsh"
is_v0_p2wpkh(spk) == spk.kind = "p2wpkh"

\* A descriptor: its witness script and its maximum satisfaction weight.
Descriptor(ws, sat) == [max_sat_weight |-> sat, ws |-> ws]

\* DepositTxOut::new, UnvaultTxOut::new, CpfpTxOut::new
DescTxOut(value, desc) ==
    [script_pubkey |-> to_v0_p2wsh(desc.ws), value |-> value,
     witness_script |-> Some(desc.ws)]

\* EmergencyTxOut::new: pays to an address, the script behind it is unknown
EmergencyTxOut(value) ==
    [script_pubkey |-> to_v0_p2wsh("emergency"), value |-> value,
     witness_script |-> None]

\* FeeBumpTxOut::new: an external P2WPKH output
FeeBumpTxOut(value) ==
    [script_pubkey |-> p2wpkh(FeebumpKey), value |-> value,
     witness_script |-> None]

\* ExternalTxOut::new(TxOut { value, ..TxOut::default() }): empty script
ExternalTxOut(value) ==
    [script_pubkey |-> [h |-> "", kind |-> "empty"], value |-> value,
     witness_script |-> None]

\* into_txout(): the bare bitcoin TxOut
into_txout(txo) == [script_pubkey |-> txo.script_pubkey, value |-> txo.value]

(***************************************************************************)
(* Transaction inputs (txins.rs).                                          *)
(***************************************************************************)
\* u64::MAX, the placeholder value of the dummy outputs that are only
\* weighed (all bits set; the value field has a fixed width)
U64_MAX == -1

\* 0xfffffffd read as a 32-bit two's complement number: bit 31 is set, which
\* disables the relative timelock of the input
RBF_SEQUENCE == -3

\* DepositTxIn::new, UnvaultTxIn::new, FeeBumpTxIn::new
TxIn(outpoint, txout, sequence, sat) ==
    [max_sat_weight |-> sat, outpoint |-> outpoint, sequence |-> sequence,
     txout |-> txout]

unsigned_txin(txin) ==
    [previous_output |-> txin.outpoint, sequence |-> txin.sequence]

(***************************************************************************)
(* PSBT construction: the create_tx! macro.                                *)
(***************************************************************************)
EmptyMap == [k \in {} |-> None]

\* PsbtIn { witness_script, sighash_type, witness_utxo, ..PsbtIn::default() }
NewPsbtIn(txin, sighash_type) ==
    [final_script_witness |-> None,
     non_witness_utxo |-> None,
     partial_sigs |-> EmptyMap,
     redeem_script |-> None,
     sighash_type |-> Some(sighash_type),
     witness_script |-> txin.txout.witness_script,
     witness_utxo |-> Some(into_txout(txin.txout))]

\* PsbtOut { witness_script, ..PsbtOut::default() }
NewPsbtOut(txo) == [redeem_script |-> None, witness_script |-> txo.witness_script]

\* create_tx!([(txin, sighash_type), ...], [txout, ...], lock_time)
\* ins is a sequence of <<txin, sighash_type>> pairs
create_tx(ins, outs, lock_time) ==
    [inputs |-> [i \in DOMAIN ins |-> NewPsbtIn(ins[i][1], ins[i][2])],
     outputs |-> [o \in DOMAIN outs |-> NewPsbtOut(outs[o])],
     unsigned_tx |->
        [input |-> [i \in DOMAIN ins |-> unsigned_txin(ins[i][1])],
         lock_time |-> lock_time,
         output |-> [o \in DOMAIN outs |-> into_txout(outs[o])],
         version |-> TX_VERSION]]

(***************************************************************************)
(* Weight of a transaction without witness (Transaction::get_weight on an  *)
(* unsigned transaction): four times its serialized size.                  *)
(***************************************************************************)
VarIntLen(n) == IF n < 253 THEN 1 ELSE 3

ScriptLen(spk) ==
    CASE spk.kind = "p2wsh" -> 34
      [] spk.kind = "p2wpkh" -> 22
      [] OTHER -> 0

TxOutSize(txo) == 8 + VarIntLen(ScriptLen(txo.script_pubkey)) + ScriptLen(txo.script_pubkey)

RECURSIVE SumTxOutSizes(_)
SumTxOutSizes(outs) ==
    IF outs = <<>> THEN 0 ELSE TxOutSize(Head(outs)) + SumTxOutSizes(Tail(outs))

\* an input without script_sig: outpoint (36), empty script (1), sequence (4)
get_weight(tx) ==
    4 * (4 + VarIntLen(Len(tx.input)) + 41 * Len(tx.input)
           + VarIntLen(Len(tx.output)) + SumTxOutSizes(tx.output) + 4)

Ok(v) == [err |-> None, ok |-> TRUE, val |-> v]
Err(e) == [err |-> Some(e), ok |-> FALSE, val |-> None]
\* a failed .expect() / assert!
Panic == Err("panic")

(***************************************************************************)
(* Constructors.  Each returns [ret, psbt]: ret is Ok(None) and psbt the   *)
(* structure, or ret the error and psbt NoPsbt.                            *)
(***************************************************************************)
Created(p) == [psbt |-> p, ret |-> Ok(None)]
Failed(e) == [psbt |-> NoPsbt, ret |-> e]

\* UnvaultTransaction::new refusing a deposit that leaves exactly the dust
\* limit to the unvault output
UnvaultTransaction_new_strict(deposit_input, unvault_descriptor, cpfp_descriptor, lock_time) ==
    LET dummy_tx ==
            create_tx(<< <<deposit_input, "All">> >>,
                      <<DescTxOut(U64_MAX, unvault_descriptor),
                        DescTxOut(U64_MAX, cpfp_descriptor)>>,
                      lock_time).unsigned_tx
        fees == UNVAULT_TX_FEERATE * (get_weight(dummy_tx) + deposit_input.max_sat_weight)
        deposit_value == deposit_input.txout.value
    IN  IF fees > INSANE_FEES THEN Failed(Err("InsaneFees"))
        ELSE IF fees + UNVAULT_CPFP_VALUE + DUST_LIMIT >= deposit_value
             THEN Failed(Err("Dust"))
        ELSE Created(create_tx(<< <<deposit_input, "All">> >>,
                               <<DescTxOut(deposit_value - fees - UNVAULT_CPFP_VALUE,
                                           unvault_descriptor),
                                 DescTxOut(UNVAULT_CPFP_VALUE, cpfp_descriptor)>>,
                               lock_time))

\* UnvaultTransaction::new not taking the CPFP output's value off the
\* unvault output
UnvaultTransaction_new_cpfp_unpaid(deposit_input, unvault_descriptor, cpfp_descriptor, lock_time) ==
    LET dummy_tx ==
            create_tx(<< <<deposit_input, "All">> >>,
                      <<DescTxOut(U64_MAX, unvault_descriptor),
                        DescTxOut(U64_MAX, cpfp_descriptor)>>,
                      lock_time).unsigned_tx
        fees == UNVAULT_TX_FEERATE * (get_weight(dummy_tx) + deposit_input.max_sat_weight)
        deposit_value == deposit_input.txout.value
    IN  IF fees > INSANE_FEES THEN Failed(Err("InsaneFees"))
        ELSE IF fees + UNVAULT_CPFP_VALUE + DUST_LIMIT > deposit_value
             THEN Failed(Err("Dust"))
        ELSE Created(create_tx(<< <<deposit_input, "All">> >>,
                               <<DescTxOut(deposit_value - fees, unvault_descriptor),
                                 DescTxOut(UNVAULT_CPFP_VALUE, cpfp_descriptor)>>,
                               lock_time))

\* UnvaultTransaction::new checking the dust limit before the insane fees
UnvaultTransaction_new_dust_first(deposit_input, unvault_descriptor, cpfp_descriptor, lock_time) ==
    LET dummy_tx ==
            create_tx(<< <<deposit_input, "All">> >>,
                      <<DescTxOut(U64_MAX, unvault_descriptor),
                        DescTxOut(U64_MAX, cpfp_descriptor)>>,
                      lock_time).unsigned_tx
        fees == UNVAULT_TX_FEERATE * (get_weight(dummy_tx) + deposit_input.max_sat_weight)
        deposit_value == deposit_input.txout.value
    IN  IF fees + UNVAULT_CPFP_VALUE + DUST_LIMIT > deposit_value
        THEN Failed(Err("Dust"))
        ELSE IF fees > INSANE_FEES THEN Failed(Err("InsaneFees"))
        ELSE Created(create_tx(<< <<deposit_input, "All">> >>,
                               <<DescTxOut(deposit_value - fees - UNVAULT_CPFP_VALUE,
                                           unvault_descriptor),
                                 DescTxOut(UNVAULT_CPFP_VALUE, cpfp_descriptor)>>,
                               lock_time))

\* UnvaultTransaction::new
UnvaultTransaction_new(deposit_input, unvault_descriptor, cpfp_descriptor, lock_time) ==
    LET dummy_tx ==
            create_tx(<< <<deposit_input, "All">> >>,
                      <<DescTxOut(U64_MAX, unvault_descriptor),
                        DescTxOut(U64_MAX, cpfp_descriptor)>>,
                      lock_time).unsigned_tx
        total_weight == get_weight(dummy_tx) + deposit_input.max_sat_weight
        fees == UNVAULT_TX_FEERATE * total_weight
        deposit_value == deposit_input.txout.value
        unvault_value == deposit_value - fees - UNVAULT_CPFP_VALUE
    IN  IF fees > INSANE_FEES THEN Failed(Err("InsaneFees"))
        ELSE IF fees + UNVAULT_CPFP_VALUE + DUST_LIMIT > deposit_value
             THEN Failed(Err("Dust"))
        ELSE Created(create_tx(<< <<deposit_input, "All">> >>,
                               <<DescTxOut(unvault_value, unvault_descriptor),
                                 DescTxOut(UNVAULT_CPFP_VALUE, cpfp_descriptor)>>,
                               lock_time))

\* The inputs of a revocation transaction, all of them signed with ALL
RevocationIns_all(txin, feebump_input) ==
    IF IsSome(feebump_input)
    THEN << <<txin, "All">>, <<Unwrap(feebump_input), "All">> >>
    ELSE << <<txin, "All">> >>

\* The inputs of a revocation transaction, the fee-bumping input first
RevocationIns_feebump_first(txin, feebump_input) ==
    IF IsSome(feebump_input)
    THEN << <<Unwrap(feebump_input), "All">>, <<txin, "AllPlusAnyoneCanPay">> >>
    ELSE << <<txin, "AllPlusAnyoneCanPay">> >>

\* The inputs of a revocation transaction: the revocation input, signed with
\* ALL | ANYONECANPAY, and the fee-bumping input if any, signed with ALL.
RevocationIns(txin, feebump_input) ==
    IF IsSome(feebump_input)
    THEN << <<txin, "AllPlusAnyoneCanPay">>, <<Unwrap(feebump_input), "All">> >>
    ELSE << <<txin, "AllPlusAnyoneCanPay">> >>

\* The fees of a revocation transaction computed with the feerate of the
\* Unvault transaction
RevocationFees_unvault_feerate(txin, dummy_txo, lock_time) ==
    LET dummy_tx ==
            create_tx(<< <<txin, "AllPlusAnyoneCanPay">> >>, <<dummy_txo>>,
                      lock_time).unsigned_tx
        total_weight == get_weight(dummy_tx) + txin.max_sat_weight
    IN  UNVAULT_TX_FEERATE * total_weight

\* The fees of a revocation transaction: computed on the dummy transaction
\* with the revocation input alone.
RevocationFees(txin, dummy_txo, lock_time) ==
    LET dummy_tx ==
            create_tx(<< <<txin, "AllPlusAnyoneCanPay">> >>, <<dummy_txo>>,
                      lock_time).unsigned_tx
        total_weight == get_weight(dummy_tx) + txin.max_sat_weight
    IN  REVAULTING_TX_FEERATE * total_weight

\* CancelTransaction::new.  debug: the build has debug assertions.
CancelTransaction_new(unvault_input, feebump_input, deposit_descriptor, lock_time, debug) ==
    LET fees == RevocationFees(unvault_input, DescTxOut(U64_MAX, deposit_descriptor),
                               lock_time)
        unvault_value == unvault_input.txout.value
        revault_value == unvault_value - fees
    IN  IF debug /\ ~(fees < INSANE_FEES) THEN Failed(Panic)
        ELSE IF fees > unvault_value THEN Failed(Panic)
        ELSE Created(create_tx(RevocationIns(unvault_input, feebump_input),
                               <<DescTxOut(revault_value, deposit_descriptor)>>,
                               lock_time))

\* EmergencyTransaction::new computing the fees on the transaction with the
\* fee-bumping input in it
EmergencyTransaction_new_feebump_weighed(deposit_input, feebump_input, lock_time, debug) ==
    LET ins == RevocationIns(deposit_input, feebump_input)
        dummy_tx == create_tx(ins, <<EmergencyTxOut(U64_MAX)>>, lock_time).unsigned_tx
        fees == REVAULTING_TX_FEERATE * (get_weight(dummy_tx) + deposit_input.max_sat_weight)
        deposit_value == deposit_input.txout.value
    IN  IF debug /\ ~(fees < INSANE_FEES) THEN Failed(Panic)
        ELSE IF fees > deposit_value THEN Failed(Err("Dust"))
        ELSE Created(create_tx(ins, <<EmergencyTxOut(deposit_value - fees)>>, lock_time))

\* EmergencyTransaction::new
EmergencyTransaction_new(deposit_input, feebump_input, lock_time, debug) ==
    LET fees == RevocationFees(deposit_input, EmergencyTxOut(U64_MAX), lock_time)
        deposit_value == deposit_input.txout.value
        emer_value == deposit_value - fees
    IN  IF debug /\ ~(fees < INSANE_FEES) THEN Failed(Panic)
        ELSE IF fees > deposit_value THEN Failed(Err("Dust"))
        ELSE Created(create_tx(RevocationIns(deposit_input, feebump_input),
                               <<EmergencyTxOut(emer_value)>>, lock_time))

\* UnvaultEmergencyTransaction::new
UnvaultEmergencyTransaction_new(unvault_input, feebump_input, lock_time, debug) ==
    LET fees == RevocationFees(unvault_input, EmergencyTxOut(U64_MAX), lock_time)
        deposit_value == unvault_input.txout.value
        emer_value == deposit_value - fees
    IN  IF debug /\ ~(fees < INSANE_FEES) THEN Failed(Panic)
        ELSE IF fees > deposit_value THEN Failed(Panic)
        ELSE Created(create_tx(RevocationIns(unvault_input, feebump_input),
                               <<EmergencyTxOut(emer_value)>>, lock_time))

RECURSIVE SumSatWeights(_)
SumSatWeights(txins) ==
    IF txins = <<>> THEN 0
    ELSE Head(txins).max_sat_weight + SumSatWeights(Tail(txins))

\* iter().position(|txo| txo.script_pubkey == spk): the first (1-based) index
\* of an output paying to spk, 0 if there is none
Position(outs, spk) ==
    IF \E i \in DOMAIN outs : outs[i].script_pubkey = spk
    THEN CHOOSE i \in DOMAIN outs :
            /\ outs[i].script_pubkey = spk
            /\ \A j \in DOMAIN outs : outs[j].script_pubkey = spk => i <= j
    ELSE 0

\* SpendTransaction::new with a CPFP value that leaves out the satisfaction
\* weight of the inputs
SpendTransaction_new_unweighted_satisfaction(unvault_inputs, spend_txouts, cpfp_descriptor, lock_time) ==
    LET dummy_cpfp_txo == DescTxOut(U64_MAX, cpfp_descriptor)
        sat_weight == SumSatWeights(unvault_inputs)
        txos == <<dummy_cpfp_txo>> \o spend_txouts
        dummy ==
            [inputs |-> [i \in DOMAIN unvault_inputs |->
                            NewPsbtIn(unvault_inputs[i], "All")],
             outputs |-> [o \in DOMAIN txos |-> NewPsbtOut(txos[o])],
             unsigned_tx |->
                [input |-> [i \in DOMAIN unvault_inputs |->
                               unsigned_txin(unvault_inputs[i])],
                 lock_time |-> lock_time,
                 output |-> [o \in DOMAIN txos |-> into_txout(txos[o])],
                 version |-> TX_VERSION]]
        witstrip_weight == get_weight(dummy.unsigned_tx)
        total_weight == witstrip_weight
        cpfp_value == 2 * 32 * total_weight
        cpfp_index == Position(dummy.unsigned_tx.output,
                               to_v0_p2wsh(cpfp_descriptor.ws))
    IN  Created([dummy EXCEPT !.unsigned_tx.output[cpfp_index].value = cpfp_value])

\* SpendTransaction::new.  spend_txouts are Destination (external) or Change
\* (deposit) outputs, both carried as [value, script_pubkey, witness_script].
SpendTransaction_new(unvault_inputs, spend_txouts, cpfp_descriptor, lock_time) ==
    LET dummy_cpfp_txo == DescTxOut(U64_MAX, cpfp_descriptor)
        sat_weight == SumSatWeights(unvault_inputs)
        txos == <<dummy_cpfp_txo>> \o spend_txouts
        dummy ==
            [inputs |-> [i \in DOMAIN unvault_inputs |->
                            NewPsbtIn(unvault_inputs[i], "All")],
             outputs |-> [o \in DOMAIN txos |-> NewPsbtOut(txos[o])],
             unsigned_tx |->
                [input |-> [i \in DOMAIN unvault_inputs |->
                               unsigned_txin(unvault_inputs[i])],
                 lock_time |-> lock_time,
                 output |-> [o \in DOMAIN txos |-> into_txout(txos[o])],
                 version |-> TX_VERSION]]
        witstrip_weight == get_weight(dummy.unsigned_tx)
        total_weight == sat_weight + witstrip_weight
        cpfp_value == 2 * 32 * total_weight
        cpfp_index == Position(dummy.unsigned_tx.output,
                               to_v0_p2wsh(cpfp_descriptor.ws))
    IN  Created([dummy EXCEPT !.unsigned_tx.output[cpfp_index].value = cpfp_value])

(***************************************************************************)
(* References to the outputs of an Unvault transaction.                    *)
(***************************************************************************)
\* Transaction::txid(): a hash of the unsigned transaction
Txid(tx) == <<"txid", tx>>

OutPoint(txid, vout) == [txid |-> txid, vout |-> vout]

\* spend_unvault_txin referencing the last output of the transaction
spend_unvault_txin_last_output(unvault_psbt, unvault_descriptor, csv) ==
    LET tx == unvault_psbt.unsigned_tx
        index == Len(tx.output)
    IN  IF index = 0 THEN [ret |-> Panic, txin |-> None]
        ELSE [ret |-> Ok(None),
              txin |-> TxIn(OutPoint(Txid(tx), index - 1),
                            DescTxOut(tx.output[index].value, unvault_descriptor),
                            csv, unvault_descriptor.max_sat_weight)]

\* UnvaultTransaction::spend_unvault_txin; [ret, txin], a panic if no output
\* pays to the descriptor
spend_unvault_txin(unvault_psbt, unvault_descriptor, csv) ==
    LET tx == unvault_psbt.unsigned_tx
        index == Position(tx.output, to_v0_p2wsh(unvault_descriptor.ws))
    IN  IF index = 0 THEN [ret |-> Panic, txin |-> None]
        ELSE [ret |-> Ok(None),
              txin |-> TxIn(OutPoint(Txid(tx), index - 1),
                            DescTxOut(tx.output[index].value, unvault_descriptor),
                            csv, unvault_descriptor.max_sat_weight)]

\* UnvaultTransaction::cpfp_txin
cpfp_txin(unvault_psbt, cpfp_descriptor) ==
    LET tx == unvault_psbt.unsigned_tx
        index == Position(tx.output, to_v0_p2wsh(cpfp_descriptor.ws))
    IN  IF index = 0 THEN [ret |-> Panic, txin |-> None]
        ELSE [ret |-> Ok(None),
              txin |-> TxIn(OutPoint(Txid(tx), index - 1),
                            DescTxOut(tx.output[index].value, cpfp_descriptor),
                            RBF_SEQUENCE, cpfp_descriptor.max_sat_weight)]

(***************************************************************************)
(* Chain builders.  Each returns [ret, txs]: the whole tuple, or the error *)
(* and no transaction.                                                     *)
(***************************************************************************)
ChainFailed(e) == [ret |-> e, txs |-> <<>>]

\* transaction_chain_manager
transaction_chain_manager(deposit_txin, deposit_descriptor, unvault_descriptor, cpfp_descriptor, lock_time, unvault_csv, debug) ==
    LET unvault == UnvaultTransaction_new(deposit_txin, unvault_descriptor,
                                          cpfp_descriptor, lock_time)
        unvault_txin == spend_unvault_txin(unvault.psbt, unvault_descriptor, unvault_csv)
        cancel == CancelTransaction_new(unvault_txin.txin, None, deposit_descriptor,
                                        lock_time, debug)
    IN  IF ~unvault.ret.ok THEN ChainFailed(unvault.ret)
        ELSE IF ~unvault_txin.ret.ok THEN ChainFailed(unvault_txin.ret)
        ELSE IF ~cancel.ret.ok THEN ChainFailed(cancel.ret)
        ELSE [ret |-> Ok(None), txs |-> <<unvault.psbt, cancel.psbt>>]

\* transaction_chain
transaction_chain(deposit_txin, deposit_descriptor, unvault_descriptor, cpfp_descriptor, lock_time, unvault_csv, debug) ==
    LET manager == transaction_chain_manager(deposit_txin, deposit_descriptor,
                        unvault_descriptor, cpfp_descriptor, lock_time,
                        unvault_csv, debug)
        emergency == EmergencyTransaction_new(deposit_txin, None, lock_time, debug)
        unvault_txin == spend_unvault_txin(manager.txs[1], unvault_descriptor,
                                           unvault_csv)
        unvault_emergency ==
            UnvaultEmergencyTransaction_new(unvault_txin.txin, None, lock_time, debug)
    IN  IF ~manager.ret.ok THEN ChainFailed(manager.ret)
        ELSE IF ~emergency.ret.ok THEN ChainFailed(emergency.ret)
        ELSE IF ~unvault_txin.ret.ok THEN ChainFailed(unvault_txin.ret)
        ELSE IF ~unvault_emergency.ret.ok THEN ChainFailed(unvault_emergency.ret)
        ELSE [ret |-> Ok(None),
              txs |-> <<manager.txs[1], manager.txs[2], emergency.psbt,
                        unvault_emergency.psbt>>]

\* the unvault reference of each deposit, in order, up to the first deposit
\* whose Unvault fails: map(..).collect::<Result<Vec<_>, _>>()
RECURSIVE unvault_txins_of(_, _, _, _, _)
unvault_txins_of(deposit_txins, unvault_descriptor, cpfp_descriptor, unvault_csv, lock_time) ==
    IF deposit_txins = <<>> THEN [ret |-> Ok(None), txins |-> <<>>]
    ELSE
    LET unvault == UnvaultTransaction_new(Head(deposit_txins), unvault_descriptor,
                                          cpfp_descriptor, lock_time)
        unvault_txin == spend_unvault_txin(unvault.psbt, unvault_descriptor, unvault_csv)
        rest == unvault_txins_of(Tail(deposit_txins), unvault_descriptor,
                                 cpfp_descriptor, unvault_csv, lock_time)
    IN  IF ~unvault.ret.ok THEN [ret |-> unvault.ret, txins |-> <<>>]
        ELSE IF ~unvault_txin.ret.ok THEN [ret |-> unvault_txin.ret, txins |-> <<>>]
        ELSE IF ~rest.ret.ok THEN rest
        ELSE [ret |-> Ok(None), txins |-> <<unvault_txin.txin>> \o rest.txins]

\* spend_tx_from_deposits leaving out the deposits whose Unvault fails
spend_tx_from_deposits_skipping_failed(deposit_txins, spend_txos, unvault_descriptor, cpfp_descriptor, unvault_csv, lock_time) ==
    LET usable == SelectSeq(deposit_txins,
                    LAMBDA d : UnvaultTransaction_new(d, unvault_descriptor,
                                                      cpfp_descriptor, lock_time).ret.ok)
        unvault_txins == unvault_txins_of(usable, unvault_descriptor, cpfp_descriptor,
                                          unvault_csv, lock_time)
    IN  IF ~unvault_txins.ret.ok THEN ChainFailed(unvault_txins.ret)
        ELSE [ret |-> Ok(None),
              txs |-> <<SpendTransaction_new(unvault_txins.txins, spend_txos,
                                             cpfp_descriptor, lock_time).psbt>>]

\* spend_tx_from_deposits
spend_tx_from_deposits(deposit_txins, spend_txos, unvault_descriptor, cpfp_descriptor, unvault_csv, lock_time) ==
    LET unvault_txins == unvault_txins_of(deposit_txins, unvault_descriptor,
                                          cpfp_descriptor, unvault_csv, lock_time)
    IN  IF ~unvault_txins.ret.ok THEN ChainFailed(unvault_txins.ret)
        ELSE [ret |-> Ok(None),
              txs |-> <<SpendTransaction_new(unvault_txins.txins, spend_txos,
                                             cpfp_descriptor, lock_time).psbt>>]

(***************************************************************************)
(* The RevaultTransaction trait: Signer.                                   *)
(* Operations on a structure return [ret, psbt]: the result and the        *)
(* structure after the call.  Input indexes are 0-based as in the code.    *)
(***************************************************************************)
\* Signature::serialize_der
serialize_der(sig) == <<sig>>

\* BTreeMap::insert
MapInsert(m, k, v) == [x \in DOMAIN m \cup {k} |-> IF x = k THEN v ELSE m[x]]
MapGet(m, k) == IF k \in DOMAIN m THEN Some(m[k]) ELSE None

\* add_signature without the check of the sighash type against the one the
\* input declares
add_signature_any_sighash(p, input_index, pubkey, sig, sighash_type) ==
    IF input_index + 1 \notin DOMAIN p.inputs
    THEN [psbt |-> p, ret |-> Err("OutOfBounds")]
    ELSE
    LET psbtin == p.inputs[input_index + 1]
        rawsig == Append(serialize_der(sig), as_u32(sighash_type) % 256)
    IN  IF IsSome(psbtin.final_script_witness)
        THEN [psbt |-> p, ret |-> Err("AlreadyFinalized")]
        ELSE [psbt |-> [p EXCEPT !.inputs[input_index + 1].partial_sigs =
                            MapInsert(psbtin.partial_sigs, pubkey, rawsig)],
              ret |-> Ok(MapGet(psbtin.partial_sigs, pubkey))]

\* add_signature that never returns the signature it replaces
add_signature_forgets_previous(p, input_index, pubkey, sig, sighash_type) ==
    LET r == add_signature_any_sighash(p, input_index, pubkey, sig, sighash_type)
    IN  IF r.ret.ok /\ sighash_type = Unwrap(p.inputs[input_index + 1].sighash_type)
        THEN [psbt |-> r.psbt, ret |-> Ok(None)]
        ELSE IF r.ret.ok THEN [psbt |-> p, ret |-> Err("UnexpectedSighashType")]
        ELSE r

\* RevaultTransaction::add_signature
add_signature(p, input_index, pubkey, sig, sighash_type) ==
    IF input_index + 1 \notin DOMAIN p.inputs
    THEN [psbt |-> p, ret |-> Err("OutOfBounds")]
    ELSE
    LET psbtin == p.inputs[input_index + 1]
        prev_txo == Unwrap(psbtin.witness_utxo)
        rawsig == Append(serialize_der(sig), as_u32(sighash_type) % 256)
    IN  IF IsSome(psbtin.final_script_witness)
        THEN [psbt |-> p, ret |-> Err("AlreadyFinalized")]
        ELSE IF ~IsSome(psbtin.witness_utxo) THEN [psbt |-> p, ret |-> Panic]
        ELSE IF IsSome(psbtin.non_witness_utxo) THEN [psbt |-> p, ret |-> Panic]
        ELSE IF /\ IsSome(psbtin.witness_script)
                /\ to_v0_p2wsh(Unwrap(psbtin.witness_script)) # prev_txo.script_pubkey
             THEN [psbt |-> p, ret |-> Panic]
        ELSE IF /\ ~IsSome(psbtin.witness_script)
                /\ ~is_v0_p2wpkh(prev_txo.script_pubkey)
             THEN [psbt |-> p, ret |-> Panic]
        ELSE IF IsSome(psbtin.redeem_script) THEN [psbt |-> p, ret |-> Panic]
        ELSE IF ~IsSome(psbtin.sighash_type) THEN [psbt |-> p, ret |-> Panic]
        ELSE IF sighash_type # Unwrap(psbtin.sighash_type)
             THEN [psbt |-> p, ret |-> Err("UnexpectedSighashType")]
        ELSE [psbt |-> [p EXCEPT !.inputs[input_index + 1].partial_sigs =
                            MapInsert(psbtin.partial_sigs, pubkey, rawsig)],
              ret |-> Ok(MapGet(psbtin.partial_sigs, pubkey))]

\* RevaultTransaction::is_finalized
is_finalized(p) ==
    \E i \in DOMAIN p.inputs : IsSome(p.inputs[i].final_script_witness)

(***************************************************************************)
(* The script layer consumed by the Finalizer.                             *)
(***************************************************************************)
\* The sets of keys whose signatures satisfy the script of an input spent
\* with the given sequence: all the stakeholders for a deposit; all the
\* stakeholders, or the managers (and cosigners) once the relative timelock
\* is met, for an unvault; the managers for a CPFP output; the key itself for
\* a P2WPKH output.
SatisfyingKeySets(psbtin, sequence) ==
    LET spk == Unwrap(psbtin.witness_utxo).script_pubkey
        ws == Unwrap(psbtin.witness_script)
    IN  IF is_v0_p2wpkh(spk) THEN {{spk.h}}
        ELSE IF ~IsSome(psbtin.witness_script) THEN {}
        ELSE IF to_v0_p2wsh(ws) # spk THEN {}
        ELSE CASE ws = "deposit" -> {Stakeholders}
               [] ws = "unvault" ->
                    {Stakeholders} \cup
                    (IF sequence >= UnvaultCsv THEN {Managers} ELSE {})
               [] ws = "cpfp" -> {Managers}
               [] OTHER -> {}

\* The satisfying sets the collected signatures cover
AvailableKeySets(psbtin, sequence) ==
    {S \in SatisfyingKeySets(psbtin, sequence) : S \subseteq DOMAIN psbtin.partial_sigs}

\* The witness the satisfier assembles: the cheapest available satisfaction.
\* Signatures are looked up, not verified.
Satisfaction(psbtin, sequence) ==
    LET avail == AvailableKeySets(psbtin, sequence)
        S == CHOOSE X \in avail : \A Y \in avail : Cardinality(X) <= Cardinality(Y)
    IN  [script |-> psbtin.witness_script, sigs |-> [k \in S |-> psbtin.partial_sigs[k]]]

\* What both script interpreters check of a witness: every signature in it
WitnessValid(witness) ==
    \A k \in DOMAIN witness.sigs : witness.sigs[k][1] = "good"

(***************************************************************************)
(* miniscript::psbt::finalize as the code relies on it: it satisfies the   *)
(* inputs one after the other in place, wiping each satisfied input, and   *)
(* stops at the first input it cannot satisfy; then it runs its            *)
(* interpreter on the result.  Returns [ok, psbt].                         *)
(***************************************************************************)
\* every partial signature carries the sighash byte its input declares
psbt_sanity_check(p) ==
    \A i \in DOMAIN p.inputs :
        LET target == IF IsSome(p.inputs[i].sighash_type)
                      THEN Unwrap(p.inputs[i].sighash_type) ELSE "All"
            sigs == p.inputs[i].partial_sigs
        IN  \A k \in DOMAIN sigs : sigs[k][Len(sigs[k])] = as_u32(target) % 256

\* the input once satisfied, its previous output wiped with the signing data
FinalizedInput_wiping_utxo(psbtin, sequence) ==
    [psbtin EXCEPT !.final_script_witness = Some(Satisfaction(psbtin, sequence)),
                   !.redeem_script = None,
                   !.partial_sigs = EmptyMap,
                   !.sighash_type = None,
                   !.witness_script = None,
                   !.witness_utxo = None]

\* the input once satisfied: the witness is set, the signing data wiped
FinalizedInput(psbtin, sequence) ==
    [psbtin EXCEPT !.final_script_witness = Some(Satisfaction(psbtin, sequence)),
                   !.redeem_script = None,
                   !.partial_sigs = EmptyMap,
                   !.sighash_type = None,
                   !.witness_script = None]

RECURSIVE SatisfyFrom(_, _)
SatisfyFrom(p, i) ==
    IF i > Len(p.inputs) THEN [ok |-> TRUE, psbt |-> p]
    ELSE LET sequence == p.unsigned_tx.input[i].sequence
         IN  IF AvailableKeySets(p.inputs[i], sequence) = {}
             THEN [ok |-> FALSE, psbt |-> p]
             ELSE SatisfyFrom(
                    [p EXCEPT !.inputs[i] = FinalizedInput(p.inputs[i], sequence)],
                    i + 1)

\* miniscript::psbt::interpreter_check
interpreter_check(p) ==
    \A i \in DOMAIN p.inputs :
        /\ IsSome(p.inputs[i].final_script_witness)
        /\ WitnessValid(Unwrap(p.inputs[i].final_script_witness))

miniscript_finalize(p) ==
    IF ~psbt_sanity_check(p) THEN [ok |-> FALSE, psbt |-> p]
    ELSE LET r == SatisfyFrom(p, 1)
         IN  IF ~r.ok THEN r
             ELSE [ok |-> interpreter_check(r.psbt), psbt |-> r.psbt]

(***************************************************************************)
(* The RevaultTransaction trait: Finalizer.                                *)
(***************************************************************************)
\* bitcoinconsensus::verify on the extracted transaction, for one input
bitcoinconsensus_verify(p, i) ==
    /\ IsSome(p.inputs[i].final_script_witness)
    /\ WitnessValid(Unwrap(p.inputs[i].final_script_witness))

\* RevaultTransaction::verify_input
verify_input(p, input_index) ==
    IF input_index + 1 \notin DOMAIN p.inputs THEN Err("OutOfBounds")
    ELSE IF ~IsSome(p.inputs[input_index + 1].witness_utxo) THEN Panic
    ELSE IF bitcoinconsensus_verify(p, input_index + 1) THEN Ok(None)
    ELSE Err("Verification")

\* RevaultTransaction::finalize
finalize(p) ==
    LET r == miniscript_finalize(p)
        failing == {i \in 0 .. Len(r.psbt.inputs) - 1 : ~verify_input(r.psbt, i).ok}
        first == CHOOSE i \in failing : \A j \in failing : i <= j
    IN  IF ~r.ok THEN [psbt |-> r.psbt, ret |-> Err("TransactionFinalisation")]
        ELSE IF failing # {} THEN [psbt |-> r.psbt, ret |-> verify_input(r.psbt, first)]
        ELSE [psbt |-> r.psbt, ret |-> Ok(None)]

\* is_finalizable without the interpreter's check of the assembled witnesses
is_finalizable_satisfiable(p) == psbt_sanity_check(p) /\ SatisfyFrom(p, 1).ok

\* RevaultTransaction::is_finalizable: finalize on a clone
is_finalizable(p) == miniscript_finalize(p).ok

(***************************************************************************)
(* Serialization (BIP174).  The encoded PSBT is the magic, the global map  *)
(* holding the unsigned transaction, then one key-value map per input and  *)
(* per output.  A map is a sequence of <<type, key data, value>> entries,  *)
(* written in the order of the types; absent fields have no entry.         *)
(***************************************************************************)
\* the order in which a BTreeMap iterates over the public keys
KeyOrder == <<"fb", "man1", "stk1", "stk2">>

\* SigHashType::from_u32
from_u32(n) == IF n = 129 THEN "AllPlusAnyoneCanPay" ELSE "All"

\* Transaction::consensus_encode / consensus_decode
encode_tx(tx) ==
    <<tx.version,
      [i \in DOMAIN tx.input |-> <<tx.input[i].previous_output, tx.input[i].sequence>>],
      [o \in DOMAIN tx.output |-> <<tx.output[o].value, tx.output[o].script_pubkey>>],
      tx.lock_time>>

decode_tx(raw) ==
    [input |-> [i \in DOMAIN raw[2] |->
                    [previous_output |-> raw[2][i][1], sequence |-> raw[2][i][2]]],
     lock_time |-> raw[4],
     output |-> [o \in DOMAIN raw[3] |->
                    [script_pubkey |-> raw[3][o][2], value |-> raw[3][o][1]]],
     version |-> raw[1]]

\* the entry of an optional field: none if the field is None
Entry(type, field) == IF IsSome(field) THEN << <<type, <<>>, Unwrap(field)>> >> ELSE <<>>

\* the value of the first entry of the given type, None if there is none
Field(map, type) ==
    LET found == SelectSeq(map, LAMBDA e : e[1] = type)
    IN  IF found = <<>> THEN None ELSE Some(found[1][3])

\* psbt::Input::consensus_encode
encode_input(input) ==
    LET keys == SelectSeq(KeyOrder, LAMBDA k : k \in DOMAIN input.partial_sigs)
    IN  Entry(0, input.non_witness_utxo)
        \o Entry(1, IF IsSome(input.witness_utxo)
                    THEN Some(<<Unwrap(input.witness_utxo).value,
                                Unwrap(input.witness_utxo).script_pubkey>>)
                    ELSE None)
        \o [n \in DOMAIN keys |-> <<2, keys[n], input.partial_sigs[keys[n]]>>]
        \o Entry(3, IF IsSome(input.sighash_type)
                    THEN Some(as_u32(Unwrap(input.sighash_type))) ELSE None)
        \o Entry(4, input.redeem_script)
        \o Entry(5, input.witness_script)
        \o Entry(8, input.final_script_witness)

\* psbt::Input::consensus_decode
decode_input(map) ==
    LET sigs == SelectSeq(map, LAMBDA e : e[1] = 2)
        utxo == Field(map, 1)
        sighash == Field(map, 3)
    IN  [final_script_witness |-> Field(map, 8),
         non_witness_utxo |-> Field(map, 0),
         partial_sigs |->
            [k \in {sigs[n][2] : n \in DOMAIN sigs} |->
                (CHOOSE e \in {sigs[n] : n \in DOMAIN sigs} : e[2] = k)[3]],
         redeem_script |-> Field(map, 4),
         sighash_type |-> IF IsSome(sighash) THEN Some(from_u32(Unwrap(sighash))) ELSE None,
         witness_script |-> Field(map, 5),
         witness_utxo |->
            IF IsSome(utxo)
            THEN Some([script_pubkey |-> Unwrap(utxo)[2], value |-> Unwrap(utxo)[1]])
            ELSE None]

\* psbt::Output::consensus_encode / consensus_decode
encode_output(output) == Entry(0, output.redeem_script) \o Entry(1, output.witness_script)

decode_output(map) == [redeem_script |-> Field(map, 0), witness_script |-> Field(map, 1)]

\* PartiallySignedTransaction::consensus_encode
consensus_encode(p) ==
    [global |-> << <<0, <<>>, encode_tx(p.unsigned_tx)>> >>,
     inputs |-> [i \in DOMAIN p.inputs |-> encode_input(p.inputs[i])],
     magic |-> "psbt",
     outputs |-> [o \in DOMAIN p.outputs |-> encode_output(p.outputs[o])]]

\* PartiallySignedTransaction::consensus_decode: one map is read for each
\* input and each output of the unsigned transaction
consensus_decode(raw) ==
    LET tx == decode_tx(Unwrap(Field(raw.global, 0)))
    IN  IF raw.magic # "psbt" \/ ~IsSome(Field(raw.global, 0)) THEN Failed(Err("Decode"))
        ELSE IF Len(raw.inputs) # Len(tx.input) \/ Len(raw.outputs) # Len(tx.output)
             THEN Failed(Err("Decode"))
        ELSE Created([inputs |-> [i \in DOMAIN raw.inputs |-> decode_input(raw.inputs[i])],
                      outputs |-> [o \in DOMAIN raw.outputs |-> decode_output(raw.outputs[o])],
                      unsigned_tx |-> tx])

\* RevaultTransaction::as_psbt_serialized
as_psbt_serialized(p) == consensus_encode(p)

\* RevaultTransaction::as_psbt_string: the base64 text of the encoding
as_psbt_string(p) == [base64 |-> as_psbt_serialized(p)]

(***************************************************************************)
(* The RevaultTransaction trait: the operations that take &self.           *)
(***************************************************************************)
\* SigHashCache::signature_hash (BIP143): what the digest commits to.  With
\* ANYONECANPAY only the signed input is committed to, else all of them.
SigHash(tx, input_index, script_code, value, sighash_type) ==
    [inputs |-> IF sighash_type = "AllPlusAnyoneCanPay"
                THEN <<tx.input[input_index + 1]>> ELSE tx.input,
     lock_time |-> tx.lock_time,
     outputs |-> tx.output,
     script_code |-> script_code,
     sighash_type |-> as_u32(sighash_type),
     spent |-> tx.input[input_index + 1],
     value |-> value,
     version |-> tx.version]

\* signature_hash_internal_input asserting the P2WSH previous output before
\* it looks for the witness script
signature_hash_internal_input_asserts_first(p, input_index, sighash_type) ==
    IF input_index + 1 \notin DOMAIN p.inputs THEN Err("OutOfBounds")
    ELSE
    LET psbtin == p.inputs[input_index + 1]
        prev_txo == Unwrap(psbtin.witness_utxo)
    IN  IF ~IsSome(psbtin.witness_utxo) THEN Panic
        ELSE IF ~is_v0_p2wsh(prev_txo.script_pubkey) THEN Panic
        ELSE IF ~IsSome(psbtin.witness_script) THEN Err("MissingWitnessScript")
        ELSE Ok(Some(SigHash(p.unsigned_tx, input_index, Unwrap(psbtin.witness_script),
                             prev_txo.value, sighash_type)))

\* RevaultTransaction::signature_hash_internal_input
signature_hash_internal_input(p, input_index, sighash_type) ==
    IF input_index + 1 \notin DOMAIN p.inputs THEN Err("OutOfBounds")
    ELSE
    LET psbtin == p.inputs[input_index + 1]
        prev_txo == Unwrap(psbtin.witness_utxo)
    IN  IF ~IsSome(psbtin.witness_utxo) THEN Panic
        ELSE IF ~IsSome(psbtin.witness_script) THEN Err("MissingWitnessScript")
        ELSE IF ~is_v0_p2wsh(prev_txo.script_pubkey) THEN Panic
        ELSE Ok(Some(SigHash(p.unsigned_tx, input_index, Unwrap(psbtin.witness_script),
                             prev_txo.value, sighash_type)))

\* RevaultTransaction::signature_hash_feebump_input
signature_hash_feebump_input(p, input_index, script_code, sighash_type) ==
    IF input_index + 1 \notin DOMAIN p.inputs THEN Err("OutOfBounds")
    ELSE
    LET psbtin == p.inputs[input_index + 1]
    IN  IF ~IsSome(psbtin.witness_utxo) THEN Panic
        ELSE Ok(Some(SigHash(p.unsigned_tx, input_index, script_code,
                             Unwrap(psbtin.witness_utxo).value, sighash_type)))

\* RevaultTransaction::is_valid
is_valid(p) ==
    /\ is_finalized(p)
    /\ \A i \in 0 .. Len(p.inputs) - 1 : verify_input(p, i).ok
    /\ interpreter_check(p)

\* Psbt::extract_tx, then Transaction::consensus_encode: the transaction
\* with the final witness of each input (none if the input has none)
into_bitcoin_serialized(p) ==
    encode_tx(p.unsigned_tx)
    \o <<[i \in DOMAIN p.inputs |->
            IF IsSome(p.inputs[i].final_script_witness)
            THEN Unwrap(p.inputs[i].final_script_witness) ELSE <<>>]>>

\* RevaultTransaction::hex: the hexadecimal text of the network encoding
hex(p) == [hex |-> into_bitcoin_serialized(p)]

(***************************************************************************)
(* Parsing: the checks every parser runs on a decoded PSBT, then those of  *)
(* each variant.  A parser returns [ret, psbt] as a constructor does.      *)
(***************************************************************************)
\* the loop of psbt_common_sanity_checks over the inputs from index i on;
\* is_final is None (unknown), Some(TRUE) or Some(FALSE)
RECURSIVE sanity_check_inputs(_, _, _)
sanity_check_inputs(inputs, i, is_final) ==
    IF i > Len(inputs) THEN Ok(None)
    ELSE
    LET input == inputs[i]
        spk == Unwrap(input.witness_utxo).script_pubkey
    IN  IF ~IsSome(input.witness_utxo) THEN Err("MissingWitnessUtxo")
        ELSE IF ~(is_v0_p2wsh(spk) \/ is_v0_p2wpkh(spk)) THEN Err("InvalidInputField")
        ELSE IF IsSome(input.non_witness_utxo) THEN Err("InvalidInputField")
        ELSE IF IsSome(input.redeem_script) THEN Err("InvalidInputField")
        ELSE IF IsSome(input.final_script_witness)
             THEN IF is_final = Some(FALSE) \/ IsSome(input.witness_script)
                  THEN Err("PartiallyFinalized")
                  ELSE sanity_check_inputs(inputs, i + 1, Some(TRUE))
             ELSE IF is_final = Some(TRUE)
                  THEN Err("PartiallyFinalized")
                  ELSE sanity_check_inputs(inputs, i + 1, Some(FALSE))

\* the common checks without the one on finalized and non-finalized inputs
psbt_common_sanity_checks_finality_unchecked(p) ==
    IF p.unsigned_tx.version # TX_VERSION THEN Err("InvalidTransactionVersion")
    ELSE IF Len(p.unsigned_tx.input) # Len(p.inputs) THEN Err("InputCountMismatch")
    ELSE IF Len(p.unsigned_tx.output) # Len(p.outputs) THEN Err("OutputCountMismatch")
    ELSE sanity_check_inputs([i \in DOMAIN p.inputs |->
                                [p.inputs[i] EXCEPT !.final_script_witness = None]],
                             1, None)

\* the common checks comparing the counts before the version
psbt_common_sanity_checks_counts_first(p) ==
    IF Len(p.unsigned_tx.input) # Len(p.inputs) THEN Err("InputCountMismatch")
    ELSE IF Len(p.unsigned_tx.output) # Len(p.outputs) THEN Err("OutputCountMismatch")
    ELSE IF p.unsigned_tx.version # TX_VERSION THEN Err("InvalidTransactionVersion")
    ELSE sanity_check_inputs(p.inputs, 1, None)

\* psbt_common_sanity_checks
psbt_common_sanity_checks(p) ==
    LET inner_tx == p.unsigned_tx
    IN  IF inner_tx.version # TX_VERSION THEN Err("InvalidTransactionVersion")
        ELSE IF Len(inner_tx.input) # Len(p.inputs) THEN Err("InputCountMismatch")
        ELSE IF Len(inner_tx.output) # Len(p.outputs) THEN Err("OutputCountMismatch")
        ELSE sanity_check_inputs(p.inputs, 1, None)

\* the 1-based indexes of the inputs spending an output of the given kind
InputsSpending(inputs, spk_kind) ==
    {i \in DOMAIN inputs :
        /\ IsSome(inputs[i].witness_utxo)
        /\ Unwrap(inputs[i].witness_utxo).script_pubkey.kind = spk_kind}

\* the least element of a set of indexes, 0 if it is empty (no input found)
FirstOf(found) ==
    IF found = {} THEN 0 ELSE CHOOSE i \in found : \A j \in found : i <= j

\* find_revocationtx_input: the first input spending a P2WSH output
find_revocationtx_input(inputs) == FirstOf(InputsSpending(inputs, "p2wsh"))

\* find_feebumping_input: the first input spending a P2WPKH output
find_feebumping_input(inputs) == FirstOf(InputsSpending(inputs, "p2wpkh"))

\* check_revocationtx_input accepting any sighash type
check_revocationtx_input_any_sighash(input) ==
    IF IsSome(input.final_script_witness) THEN Ok(None)
    ELSE IF ~IsSome(input.witness_script) THEN Err("MissingInWitnessScript")
    ELSE IF to_v0_p2wsh(Unwrap(input.witness_script))
                # Unwrap(input.witness_utxo).script_pubkey
         THEN Err("InvalidInWitnessScript")
    ELSE Ok(None)

\* check_revocationtx_input
check_revocationtx_input(input) ==
    IF IsSome(input.final_script_witness) THEN Ok(None)
    ELSE IF input.sighash_type # Some("AllPlusAnyoneCanPay") THEN Err("InvalidSighashType")
    ELSE IF ~IsSome(input.witness_script) THEN Err("MissingInWitnessScript")
    ELSE IF to_v0_p2wsh(Unwrap(input.witness_script))
                # Unwrap(input.witness_utxo).script_pubkey
         THEN Err("InvalidInWitnessScript")
    ELSE Ok(None)

\* check_feebump_input accepting a fee-bumping input with a witness script
check_feebump_input_any_script(input) ==
    IF IsSome(input.final_script_witness) THEN Ok(None)
    ELSE IF input.sighash_type # Some("All") THEN Err("InvalidSighashType")
    ELSE IF ~is_v0_p2wpkh(Unwrap(input.witness_utxo).script_pubkey)
         THEN Err("InvalidPrevoutType")
    ELSE Ok(None)

\* check_feebump_input
check_feebump_input(input) ==
    IF IsSome(input.final_script_witness) THEN Ok(None)
    ELSE IF input.sighash_type # Some("All") THEN Err("InvalidSighashType")
    ELSE IF ~is_v0_p2wpkh(Unwrap(input.witness_utxo).script_pubkey)
         THEN Err("InvalidPrevoutType")
    ELSE IF IsSome(input.witness_script) THEN Err("InvalidInputField")
    ELSE Ok(None)

\* the checks of an input that spends a script of ours with SIGHASH_ALL
\* (the input of an Unvault, every input of a Spend)
check_all_input(input) ==
    IF IsSome(input.final_script_witness) THEN Ok(None)
    ELSE IF input.sighash_type # Some("All") THEN Err("InvalidSighashType")
    ELSE IF ~IsSome(input.witness_script) THEN Err("MissingInWitnessScript")
    ELSE IF to_v0_p2wsh(Unwrap(input.witness_script))
                # Unwrap(input.witness_utxo).script_pubkey
         THEN Err("InvalidInWitnessScript")
    ELSE Ok(None)

\* the loop over the outputs without the comparison of the witness script
\* with the script pubkey of the output
RECURSIVE check_outputs_unmatched(_, _)
check_outputs_unmatched(p, o) ==
    IF o > Len(p.outputs) THEN Ok(None)
    ELSE IF ~IsSome(p.outputs[o].witness_script) THEN Err("MissingOutWitnessScript")
    ELSE IF IsSome(p.outputs[o].redeem_script) THEN Err("InvalidOutputField")
    ELSE check_outputs_unmatched(p, o + 1)

\* the loop over the outputs of the Unvault and Cancel parsers, from index o
RECURSIVE check_outputs(_, _)
check_outputs(p, o) ==
    IF o > Len(p.outputs) THEN Ok(None)
    ELSE
    LET psbtout == p.outputs[o]
    IN  IF ~IsSome(psbtout.witness_script) THEN Err("MissingOutWitnessScript")
        ELSE IF IsSome(psbtout.redeem_script) THEN Err("InvalidOutputField")
        ELSE IF p.unsigned_tx.output[o].script_pubkey
                    # to_v0_p2wsh(Unwrap(psbtout.witness_script))
             THEN Err("InvalidOutWitnessScript")
        ELSE check_outputs(p, o + 1)

\* the input checks shared by the Cancel, Emergency and UnvaultEmergency
\* parsers
check_revocation_inputs(p) ==
    LET input_count == Len(p.unsigned_tx.input)
        fb == find_feebumping_input(p.inputs)
        rev == find_revocationtx_input(p.inputs)
    IN  IF input_count > 2 THEN Err("InvalidInputCount")
        ELSE IF input_count > 1 /\ fb = 0 THEN Err("MissingFeeBumpingInput")
        ELSE IF input_count > 1 /\ ~check_feebump_input(p.inputs[fb]).ok
             THEN check_feebump_input(p.inputs[fb])
        ELSE IF rev = 0 THEN Err("MissingRevocationInput")
        ELSE check_revocationtx_input(p.inputs[rev])

\* the first failing check of a sequence of check results
RECURSIVE FirstErr(_)
FirstErr(checks) ==
    IF checks = <<>> THEN Ok(None)
    ELSE IF ~Head(checks).ok THEN Head(checks)
    ELSE FirstErr(Tail(checks))

Parsed(p, check) == IF check.ok THEN Created(p) ELSE Failed(check)

\* UnvaultTransaction::from_raw_psbt, after the decoding
UnvaultTransaction_from_psbt(p) ==
    LET common == psbt_common_sanity_checks(p)
    IN  IF ~common.ok THEN Failed(common)
        ELSE IF Len(p.unsigned_tx.output) # 2 THEN Failed(Err("InvalidOutputCount"))
        ELSE IF Len(p.unsigned_tx.input) # 1 THEN Failed(Err("InvalidInputCount"))
        ELSE IF ~check_all_input(p.inputs[1]).ok THEN Failed(check_all_input(p.inputs[1]))
        ELSE Parsed(p, check_outputs(p, 1))

\* CancelTransaction::from_raw_psbt, after the decoding
CancelTransaction_from_psbt(p) ==
    LET common == psbt_common_sanity_checks(p)
    IN  IF ~common.ok THEN Failed(common)
        ELSE IF Len(p.unsigned_tx.output) # 1 THEN Failed(Err("InvalidOutputCount"))
        ELSE IF ~IsSome(p.outputs[1].witness_script)
             THEN Failed(Err("MissingOutWitnessScript"))
        ELSE IF IsSome(p.outputs[1].redeem_script) THEN Failed(Err("InvalidOutputField"))
        ELSE IF ~check_revocation_inputs(p).ok THEN Failed(check_revocation_inputs(p))
        ELSE Parsed(p, check_outputs(p, 1))

\* EmergencyTransaction::from_raw_psbt refusing a second input
EmergencyTransaction_from_psbt_single_input(p) ==
    LET common == psbt_common_sanity_checks(p)
    IN  IF ~common.ok THEN Failed(common)
        ELSE IF Len(p.unsigned_tx.output) # 1 THEN Failed(Err("InvalidOutputCount"))
        ELSE IF Len(p.unsigned_tx.input) > 1 THEN Failed(Err("InvalidInputCount"))
        ELSE Parsed(p, check_revocation_inputs(p))

\* EmergencyTransaction::from_raw_psbt, after the decoding
EmergencyTransaction_from_psbt(p) ==
    LET common == psbt_common_sanity_checks(p)
    IN  IF ~common.ok THEN Failed(common)
        ELSE IF Len(p.unsigned_tx.output) # 1 THEN Failed(Err("InvalidOutputCount"))
        ELSE Parsed(p, check_revocation_inputs(p))

\* UnvaultEmergencyTransaction::from_raw_psbt, after the decoding
UnvaultEmergencyTransaction_from_psbt(p) ==
    LET common == psbt_common_sanity_checks(p)
    IN  IF ~common.ok THEN Failed(common)
        ELSE IF Len(p.unsigned_tx.output) # 1 THEN Failed(Err("InvalidOutputCount"))
        ELSE Parsed(p, check_revocation_inputs(p))

\* SpendTransaction::from_raw_psbt, after the decoding
SpendTransaction_from_psbt(p) ==
    LET common == psbt_common_sanity_checks(p)
    IN  IF ~common.ok THEN Failed(common)
        ELSE IF Len(p.inputs) < 1 THEN Failed(Err("InvalidInputCount"))
        ELSE Parsed(p, FirstErr([i \in DOMAIN p.inputs |-> check_all_input(p.inputs[i])]))

Variants == {"Unvault", "Cancel", "Emergency", "UnvaultEmergency", "Spend"}

\* the parser of each variant
from_psbt(variant, p) ==
    CASE variant = "Unvault" -> UnvaultTransaction_from_psbt(p)
      [] variant = "Cancel" -> CancelTransaction_from_psbt(p)
      [] variant = "Emergency" -> EmergencyTransaction_from_psbt(p)
      [] variant = "UnvaultEmergency" -> UnvaultEmergencyTransaction_from_psbt(p)
      [] variant = "Spend" -> SpendTransaction_from_psbt(p)

\* from_raw_psbt / RevaultTransaction::from_psbt_serialized of a variant
from_psbt_serialized(variant, raw_psbt) ==
    LET decoded == consensus_decode(raw_psbt)
    IN  IF ~decoded.ret.ok THEN decoded ELSE from_psbt(variant, decoded.psbt)

\* RevaultTransaction::from_psbt_str of a variant
from_psbt_str(variant, psbt_str) ==
    IF "base64" \notin DOMAIN psbt_str THEN Failed(Err("Base64Decode"))
    ELSE from_psbt_serialized(variant, psbt_str.base64)

(***************************************************************************)
(* The inputs the operations are called with.                              *)
(***************************************************************************)
\* Maximum satisfaction weights of the deposit descriptor: two stakeholders
\* (the 234_632 "absolute minimum" of the tests is 6 * (548 + 224) + 230_000),
\* and the two weights around the insane-fees ceiling of the Unvault
DepositSatWeights == {224, 3332785, 3332786}
\* of the unvault descriptor: a small one, one whose revocation fee exceeds
\* the dust limit, and one whose revocation fee reaches the insane fees
UnvaultSatWeights == {400, 8800, 908715}

DepositDescriptor(sat) == Descriptor("deposit", sat)
UnvaultDescriptor(sat) == Descriptor("unvault", sat)
CpfpDescriptor == Descriptor("cpfp", 100)

LockTimes == {0, 1}
BigValue == 100000000

Around(t) == {t + d : d \in (0 - Slack) .. Slack}

\* funding values around each threshold of the constructors, and 1 BTC
DepositValues(sat) ==
    Around(UNVAULT_TX_FEERATE * (548 + sat) + UNVAULT_CPFP_VALUE + DUST_LIMIT)
    \cup Around(REVAULTING_TX_FEERATE * (376 + sat))
    \cup {BigValue}

UnvaultValues(sat) ==
    Around(REVAULTING_TX_FEERATE * (376 + sat)) \cup Around(DUST_LIMIT) \cup {BigValue}

DepositTxIn(value, sat) ==
    TxIn(OutPoint("deposit_txid", 0), DescTxOut(value, DepositDescriptor(sat)),
         RBF_SEQUENCE, sat)

UnvaultTxIn(n, value, sat, csv) ==
    TxIn(OutPoint("unvault_txid", n), DescTxOut(value, UnvaultDescriptor(sat)), csv, sat)

FeeBumpTxIn == TxIn(OutPoint("feebump_txid", 0), FeeBumpTxOut(56730), RBF_SEQUENCE, 108)

FeebumpInputs == {None, Some(FeeBumpTxIn)}

\* every deposit / unvault reference of the bounded value sets
AllDepositTxIns ==
    UNION {{DepositTxIn(v, sat) : v \in DepositValues(sat)} : sat \in DepositSatWeights}
AllUnvaultTxIns ==
    UNION {{UnvaultTxIn(0, v, sat, RBF_SEQUENCE) : v \in UnvaultValues(sat)} :
           sat \in UnvaultSatWeights}
AllUnvaultDescriptors == {UnvaultDescriptor(sat) : sat \in UnvaultSatWeights}

\* the references signed and finalized: a 1 BTC deposit of two stakeholders,
\* the unvault output of its Unvault transaction
SignedDepositTxIn == DepositTxIn(BigValue, 224)
SignedUnvault ==
    UnvaultTransaction_new(SignedDepositTxIn, UnvaultDescriptor(400), CpfpDescriptor, 0).psbt
SignedUnvaultTxIn(csv) ==
    spend_unvault_txin(SignedUnvault, UnvaultDescriptor(400), csv).txin

\* the unvault references batched in a Spend, from distinct outpoints: one
\* or two, the last one with the timelock of the descriptor or one less
SpendInputLists ==
    {<<UnvaultCsv>>, <<UnvaultCsv - 1>>,
     <<UnvaultCsv, UnvaultCsv>>, <<UnvaultCsv, UnvaultCsv - 1>>}
SpendInputs(csvs) ==
    [i \in DOMAIN csvs |->
        IF i = 1 THEN SignedUnvaultTxIn(csvs[i])
        ELSE UnvaultTxIn(i, 7000, 400, csvs[i])]
\* a destination and a change output
SpendTxOuts == {<<ExternalTxOut(1), DescTxOut(5000, DepositDescriptor(224))>>}

\* ExternalTxOut::new(TxOut { value, script_pubkey }): a destination of the
\* caller's choice
ExternalTxOutTo(value, spk) ==
    [script_pubkey |-> spk, value |-> value, witness_script |-> None]

\* every list of unvault references and of outputs a Spend is created from:
\* also no reference at all, no output, and a destination that pays to the
\* script of the CPFP output
AllSpendInputLists == {<<>>} \cup SpendInputLists
AllSpendTxOuts ==
    SpendTxOuts \cup
    {<<>>, <<ExternalTxOutTo(777, to_v0_p2wsh(CpfpDescriptor.ws)), ExternalTxOut(1)>>}

(***************************************************************************)
(* Actions.  One structure is constructed, then signed and finalized.      *)
(***************************************************************************)
\* what the call `name` returned
Ret(name, r) == [call |-> name, err |-> r.err, ok |-> r.ok, val |-> r.val]

Init ==
    /\ kind = "None"
    /\ psbt = NoPsbt
    /\ chain = <<>>
    /\ ret = Ret("None", Ok(None))
    /\ made = [name |-> "None"]
    /\ nsigs = 0

\* the state after a constructor returned r
Construct(variant, r, call) ==
    /\ made.name = "None"
    /\ kind' = IF r.ret.ok THEN variant ELSE "None"
    /\ psbt' = r.psbt
    /\ ret' = Ret(call.name, r.ret)
    /\ made' = call
    /\ UNCHANGED <<chain, nsigs>>

NewUnvault(deposits, descriptors, lock_times) ==
    \E d \in deposits, ud \in descriptors, lt \in lock_times :
        Construct("Unvault",
                  UnvaultTransaction_new(d, ud, CpfpDescriptor, lt),
                  [cpfp_descriptor |-> CpfpDescriptor, deposit_input |-> d,
                   lock_time |-> lt, name |-> "UnvaultTransaction::new",
                   unvault_descriptor |-> ud])

NewCancel(unvaults, feebumps, lock_times) ==
    \E u \in unvaults, fb \in feebumps, lt \in lock_times, debug \in BOOLEAN :
        Construct("Cancel",
                  CancelTransaction_new(u, fb, DepositDescriptor(224), lt, debug),
                  [debug |-> debug, deposit_descriptor |-> DepositDescriptor(224),
                   feebump_input |-> fb, lock_time |-> lt,
                   name |-> "CancelTransaction::new", txin |-> u])

NewEmergency(deposits, feebumps, lock_times) ==
    \E d \in deposits, fb \in feebumps, lt \in lock_times, debug \in BOOLEAN :
        Construct("Emergency",
                  EmergencyTransaction_new(d, fb, lt, debug),
                  [debug |-> debug, feebump_input |-> fb,
                   lock_time |-> lt, name |-> "EmergencyTransaction::new", txin |-> d])

NewUnvaultEmergency(unvaults, feebumps, lock_times) ==
    \E u \in unvaults, fb \in feebumps, lt \in lock_times, debug \in BOOLEAN :
        Construct("UnvaultEmergency",
                  UnvaultEmergencyTransaction_new(u, fb, lt, debug),
                  [debug |-> debug, feebump_input |-> fb,
                   lock_time |-> lt, name |-> "UnvaultEmergencyTransaction::new", txin |-> u])

NewSpend ==
    \E csvs \in SpendInputLists, outs \in SpendTxOuts :
        Construct("Spend",
                  SpendTransaction_new(SpendInputs(csvs), outs, CpfpDescriptor, 0),
                  [lock_time |-> 0, name |-> "SpendTransaction::new",
                   spend_txouts |-> outs, unvault_inputs |-> SpendInputs(csvs)])

\* add_signature(input_index, pubkey, (sig, sighash_type))
AddSignature(input_index, pubkey, sig, sighash_type) ==
    /\ kind # "None"
    /\ LET r == add_signature(psbt, input_index, pubkey, sig, sighash_type)
       IN  /\ r.ret.ok => nsigs < MaxSigs
           /\ psbt' = r.psbt
           /\ ret' = Ret("add_signature", r.ret)
           /\ nsigs' = IF r.ret.ok THEN nsigs + 1 ELSE nsigs
    /\ UNCHANGED <<kind, chain, made>>

\* the input indexes tried: those of the structure, and one past them
InputIndexes == 0 .. Len(psbt.inputs)

AddSignatureCall ==
    \E i \in InputIndexes, k \in Keys, s \in Sigs, t \in SigHashTypes :
        AddSignature(i, k, s, t)

\* finalize(ctx)
Finalize ==
    /\ kind # "None"
    /\ LET r == finalize(psbt)
       IN  /\ psbt' = r.psbt
           /\ ret' = Ret("finalize", r.ret)
    /\ UNCHANGED <<kind, chain, made, nsigs>>

Next ==
    \/ NewUnvault({SignedDepositTxIn}, {UnvaultDescriptor(400)}, {0})
    \/ NewCancel({SignedUnvaultTxIn(RBF_SEQUENCE)}, FeebumpInputs, {0})
    \/ NewEmergency({SignedDepositTxIn}, FeebumpInputs, {0})
    \/ NewUnvaultEmergency({SignedUnvaultTxIn(RBF_SEQUENCE)}, FeebumpInputs, {0})
    \/ NewSpend
    \/ AddSignatureCall
    \/ Finalize

Spec == Init /\ [][Next]_vars

(***************************************************************************)
(* The whole interface of a structure: the Signer and the Finalizer, the   *)
(* operations that take &self, and the mutable reference to the PSBT.      *)
(***************************************************************************)
\* the state after an operation that takes &self returned r
Query(name, r) ==
    /\ kind # "None"
    /\ ret' = Ret(name, r)
    /\ UNCHANGED <<kind, psbt, chain, made, nsigs>>

SignatureHashInternalInput ==
    \E i \in InputIndexes, t \in SigHashTypes :
        Query("signature_hash_internal_input", signature_hash_internal_input(psbt, i, t))

\* the script code is the P2PKH script of the fee-bumping key
SignatureHashFeebumpInput ==
    \E i \in InputIndexes, t \in SigHashTypes :
        Query("signature_hash_feebump_input",
              signature_hash_feebump_input(psbt, i, <<"p2pkh", FeebumpKey>>, t))

IsFinalizable == Query("is_finalizable", Ok(Some(is_finalizable(psbt))))

IsFinalized == Query("is_finalized", Ok(Some(is_finalized(psbt))))

IsValid == Query("is_valid", Ok(Some(is_valid(psbt))))

VerifyInput == \E i \in InputIndexes : Query("verify_input", verify_input(psbt, i))

AsPsbtSerialized == Query("as_psbt_serialized", Ok(Some(as_psbt_serialized(psbt))))

AsPsbtString == Query("as_psbt_string", Ok(Some(as_psbt_string(psbt))))

Hex == Query("hex", Ok(Some(hex(psbt))))

InnerTx == Query("inner_tx", Ok(Some(psbt)))

\* inner_tx_mut() hands the caller a mutable reference to the PSBT; the
\* caller writes through it (here: the lock time of the unsigned transaction)
InnerTxMut ==
    /\ kind # "None"
    /\ \E lock_time \in LockTimes :
          psbt' = [psbt EXCEPT !.unsigned_tx.lock_time = lock_time]
    /\ ret' = Ret("inner_tx_mut", Ok(None))
    /\ UNCHANGED <<kind, chain, made, nsigs>>

\* The operations are the provided methods of the trait, the same code for
\* every variant: they are run on structures with one input, and on an
\* Emergency with a fee-bumping input.
NextIface ==
    \/ NewUnvault({SignedDepositTxIn}, {UnvaultDescriptor(400)}, {0})
    \/ NewCancel({SignedUnvaultTxIn(RBF_SEQUENCE)}, {None}, {0})
    \/ NewEmergency({SignedDepositTxIn}, FeebumpInputs, {0})
    \/ NewUnvaultEmergency({SignedUnvaultTxIn(RBF_SEQUENCE)}, {None}, {0})
    \/ AddSignatureCall
    \/ Finalize
    \/ SignatureHashInternalInput
    \/ SignatureHashFeebumpInput
    \/ IsFinalizable
    \/ IsFinalized
    \/ IsValid
    \/ VerifyInput
    \/ AsPsbtSerialized
    \/ AsPsbtString
    \/ Hex
    \/ InnerTx
    \/ InnerTxMut

SpecIface == Init /\ [][NextIface]_vars

(***************************************************************************)
(* Parsing decoded structures.  The candidates are the structures the      *)
(* constructors return, with up to two fields or lists altered.            *)
(***************************************************************************)
\* the structures the candidates are derived from
ParseBases ==
    {SignedUnvault,
     CancelTransaction_new(SignedUnvaultTxIn(RBF_SEQUENCE), None,
                           DepositDescriptor(224), 0, FALSE).psbt,
     CancelTransaction_new(SignedUnvaultTxIn(RBF_SEQUENCE), Some(FeeBumpTxIn),
                           DepositDescriptor(224), 0, FALSE).psbt,
     EmergencyTransaction_new(SignedDepositTxIn, None, 0, FALSE).psbt,
     EmergencyTransaction_new(SignedDepositTxIn, Some(FeeBumpTxIn), 0, FALSE).psbt,
     UnvaultEmergencyTransaction_new(SignedUnvaultTxIn(RBF_SEQUENCE), None, 0, FALSE).psbt,
     SpendTransaction_new(SpendInputs(<<UnvaultCsv>>), <<>>, CpfpDescriptor, 0).psbt,
     SpendTransaction_new(SpendInputs(<<UnvaultCsv, UnvaultCsv>>), <<>>,
                          CpfpDescriptor, 0).psbt}

\* a sequence without its last element
Front(seq) == SubSeq(seq, 1, Len(seq) - 1)

\* an alteration of the whole structure
AlterGlobal(p, op) ==
    CASE op = "version" -> [p EXCEPT !.unsigned_tx.version = 1]
      [] op = "drop_psbt_in" -> [p EXCEPT !.inputs = Front(@)]
      [] op = "drop_psbt_out" -> [p EXCEPT !.outputs = Front(@)]
      [] op = "drop_input" ->
            [p EXCEPT !.inputs = Front(@), !.unsigned_tx.input = Front(@)]
      [] op = "add_input" ->
            IF p.inputs = <<>> \/ p.unsigned_tx.input = <<>> THEN p
            ELSE [p EXCEPT !.inputs = Append(@, @[Len(@)]),
                           !.unsigned_tx.input = Append(@, @[Len(@)])]
      [] op = "swap_inputs" ->
            IF Len(p.inputs) # 2 \/ Len(p.unsigned_tx.input) # 2 THEN p
            ELSE [p EXCEPT !.inputs = <<@[2], @[1]>>,
                           !.unsigned_tx.input = <<@[2], @[1]>>]
      [] op = "drop_output" ->
            [p EXCEPT !.outputs = Front(@), !.unsigned_tx.output = Front(@)]
      [] op = "add_output" ->
            IF p.outputs = <<>> \/ p.unsigned_tx.output = <<>> THEN p
            ELSE [p EXCEPT !.outputs = Append(@, @[Len(@)]),
                           !.unsigned_tx.output = Append(@, @[Len(@)])]

\* an alteration of one PSBT input
AlterInput(input, op) ==
    CASE op = "no_witness_utxo" -> [input EXCEPT !.witness_utxo = None]
      [] op = "p2sh_prevout" ->
            IF ~IsSome(input.witness_utxo) THEN input
            ELSE [input EXCEPT !.witness_utxo[1].script_pubkey = [h |-> "", kind |-> "p2sh"]]
      [] op = "p2wpkh_prevout" ->
            IF ~IsSome(input.witness_utxo) THEN input
            ELSE [input EXCEPT !.witness_utxo[1].script_pubkey = p2wpkh(FeebumpKey)]
      [] op = "p2wsh_prevout" ->
            IF ~IsSome(input.witness_utxo) THEN input
            ELSE [input EXCEPT !.witness_utxo[1].script_pubkey = to_v0_p2wsh("deposit")]
      [] op = "non_witness_utxo" -> [input EXCEPT !.non_witness_utxo = Some("tx")]
      [] op = "redeem_script" -> [input EXCEPT !.redeem_script = Some("script")]
      [] op = "final_witness" -> [input EXCEPT !.final_script_witness = Some(<<"witness">>)]
      [] op = "finalized" ->
            [input EXCEPT !.final_script_witness = Some(<<"witness">>),
                          !.partial_sigs = EmptyMap,
                          !.sighash_type = None,
                          !.witness_script = None]
      [] op = "no_sighash" -> [input EXCEPT !.sighash_type = None]
      [] op = "other_sighash" ->
            [input EXCEPT !.sighash_type =
                IF @ = Some("All") THEN Some("AllPlusAnyoneCanPay") ELSE Some("All")]
      [] op = "no_witness_script" -> [input EXCEPT !.witness_script = None]
      [] op = "other_witness_script" -> [input EXCEPT !.witness_script = Some("other")]

\* an alteration of one PSBT output
AlterOutput(output, op) ==
    CASE op = "no_witness_script" -> [output EXCEPT !.witness_script = None]
      [] op = "other_witness_script" -> [output EXCEPT !.witness_script = Some("other")]
      [] op = "redeem_script" -> [output EXCEPT !.redeem_script = Some("script")]

GlobalOps ==
    {"version", "drop_psbt_in", "drop_psbt_out", "drop_input", "add_input",
     "swap_inputs", "drop_output", "add_output"}
InputOps ==
    {"no_witness_utxo", "p2sh_prevout", "p2wpkh_prevout", "p2wsh_prevout",
     "non_witness_utxo", "redeem_script", "final_witness", "finalized",
     "no_sighash", "other_sighash", "no_witness_script", "other_witness_script"}
OutputOps == {"no_witness_script", "other_witness_script", "redeem_script"}

\* the alterations: <<where, index, what>>, and none
Alterations ==
    {<<"none", 0, "none">>}
    \cup {<<"global", 0, op>> : op \in GlobalOps}
    \cup {<<"input", i, op>> : i \in 1 .. 2, op \in InputOps}
    \cup {<<"output", o, op>> : o \in 1 .. 2, op \in OutputOps}

Alter(p, a) ==
    CASE a[1] = "none" -> p
      [] a[1] = "global" -> AlterGlobal(p, a[3])
      [] a[1] = "input" ->
            IF a[2] \notin DOMAIN p.inputs THEN p
            ELSE [p EXCEPT !.inputs[a[2]] = AlterInput(@, a[3])]
      [] a[1] = "output" ->
            IF a[2] \notin DOMAIN p.outputs THEN p
            ELSE [p EXCEPT !.outputs[a[2]] = AlterOutput(@, a[3])]

\* from_raw_psbt of a variant on a decoded candidate
Parse ==
    /\ made.name = "None"
    /\ \E variant \in Variants, base \in ParseBases, a \in Alterations, b \in Alterations :
          LET candidate == Alter(Alter(base, a), b)
              r == from_psbt(variant, candidate)
          IN  /\ kind' = IF r.ret.ok THEN variant ELSE "None"
              /\ psbt' = r.psbt
              /\ ret' = Ret("from_raw_psbt", r.ret)
              /\ made' = [candidate |-> candidate, name |-> "from_raw_psbt",
                          variant |-> variant]
    /\ UNCHANGED <<chain, nsigs>>

NextParse == Parse

SpecParse == Init /\ [][NextParse]_vars

(***************************************************************************)
(* The Signer and the Finalizer on the structures the parsers accept: the  *)
(* structures the constructors return, with at most one alteration.        *)
(***************************************************************************)
\* from_raw_psbt of a variant accepts a decoded candidate
Accept ==
    /\ made.name = "None"
    /\ \E variant \in Variants, base \in ParseBases, a \in Alterations :
          LET candidate == Alter(base, a)
              r == from_psbt(variant, candidate)
          IN  /\ r.ret.ok
              /\ kind' = variant
              /\ psbt' = r.psbt
              /\ ret' = Ret("from_raw_psbt", r.ret)
              /\ made' = [candidate |-> candidate, name |-> "from_raw_psbt",
                          variant |-> variant]
    /\ UNCHANGED <<chain, nsigs>>

NextAccepted ==
    \/ Accept
    \/ AddSignatureCall
    \/ Finalize

SpecAccepted == Init /\ [][NextAccepted]_vars

(***************************************************************************)
(* The constructors and the chain builders over the whole value sets.      *)
(***************************************************************************)
\* the state after a chain builder returned r
BuildChain(r, call) ==
    /\ made.name = "None"
    /\ chain' = r.txs
    /\ ret' = Ret(call.name, r.ret)
    /\ made' = call
    /\ UNCHANGED <<kind, psbt, nsigs>>

TransactionChainManager ==
    \E d \in AllDepositTxIns, ud \in AllUnvaultDescriptors, lt \in LockTimes,
       debug \in BOOLEAN :
        BuildChain(transaction_chain_manager(
                        d, DepositDescriptor(d.max_sat_weight), ud, CpfpDescriptor,
                        lt, UnvaultCsv, debug),
                   [debug |-> debug, deposit_txin |-> d,
                    lock_time |-> lt, name |-> "transaction_chain_manager", unvault_descriptor |-> ud])

TransactionChain ==
    \E d \in AllDepositTxIns, ud \in AllUnvaultDescriptors, lt \in LockTimes,
       debug \in BOOLEAN :
        BuildChain(transaction_chain(
                        d, DepositDescriptor(d.max_sat_weight), ud, CpfpDescriptor,
                        lt, UnvaultCsv, debug),
                   [debug |-> debug, deposit_txin |-> d,
                    lock_time |-> lt, name |-> "transaction_chain", unvault_descriptor |-> ud])

\* SpendTransaction::new over every list of references and of outputs
NewSpendAny ==
    \E csvs \in AllSpendInputLists, outs \in AllSpendTxOuts, lt \in LockTimes :
        Construct("Spend",
                  SpendTransaction_new(SpendInputs(csvs), outs, CpfpDescriptor, lt),
                  [cpfp_descriptor |-> CpfpDescriptor, lock_time |-> lt,
                   name |-> "SpendTransaction::new",
                   spend_txouts |-> outs, unvault_inputs |-> SpendInputs(csvs)])

\* the lists of deposits a Spend is created from: none, one or two deposits
\* of two stakeholders around the thresholds of the Unvault, or one whose
\* Unvault would pay insane fees
SpendDeposits ==
    {DepositTxIn(v, 224) : v \in DepositValues(224)}
    \cup {DepositTxIn(BigValue, 3332786)}
DepositLists ==
    {<<>>} \cup {<<d>> : d \in SpendDeposits}
    \cup {<<d, e>> : d \in SpendDeposits, e \in SpendDeposits}

SpendTxFromDeposits ==
    \E ds \in DepositLists, outs \in SpendTxOuts, ud \in AllUnvaultDescriptors,
       lt \in LockTimes :
        BuildChain(spend_tx_from_deposits(ds, outs, ud, CpfpDescriptor, UnvaultCsv, lt),
                   [deposit_txins |-> ds, lock_time |-> lt,
                    name |-> "spend_tx_from_deposits", spend_txos |-> outs,
                    unvault_descriptor |-> ud])

NextNew ==
    \/ NewUnvault(AllDepositTxIns, AllUnvaultDescriptors, LockTimes)
    \/ NewCancel(AllUnvaultTxIns, FeebumpInputs, LockTimes)
    \/ NewEmergency(AllDepositTxIns, FeebumpInputs, LockTimes)
    \/ NewUnvaultEmergency(AllUnvaultTxIns, FeebumpInputs, LockTimes)
    \/ NewSpendAny
    \/ TransactionChainManager
    \/ TransactionChain
    \/ SpendTxFromDeposits

SpecNew == Init /\ [][NextNew]_vars

(***************************************************************************)
(* Properties of the Signer and the Finalizer.                             *)
(***************************************************************************)
\* the input has a final witness
IsFinal(psbtin) == IsSome(psbtin.final_script_witness)

\* the 0-based indexes of the inputs of the structure
InRange == 0 .. Len(psbt.inputs) - 1

\* C1: whenever is_finalized() is true, add_signature on every in-range
\* input index fails with AlreadyFinalized and leaves the structure unchanged.
C1_FinalizedRejectsSignatures ==
    [][\A i \in InRange, k \in Keys, s \in Sigs, t \in SigHashTypes :
          (is_finalized(psbt) /\ AddSignature(i, k, s, t))
              => (ret'.err = Some("AlreadyFinalized") /\ psbt' = psbt)]_vars

\* C2: in every reachable state the inputs are either all without a final
\* witness or all with one.
C2_AllOrNoneFinal ==
    \A i, j \in DOMAIN psbt.inputs : IsFinal(psbt.inputs[i]) = IsFinal(psbt.inputs[j])

\* C3: a finalize call that returns an error leaves the structure as it was
\* before the call.
C3_FailedFinalizeLeavesUnchanged ==
    [][(Finalize /\ ~ret'.ok) => psbt' = psbt]_vars

\* The sighash type each constructor records for an input: ALL | ANYONECANPAY
\* for the revocation input of a Cancel, Emergency or UnvaultEmergency, ALL
\* for their fee-bumping input and for every input of an Unvault or a Spend.
RecordedSighashType(i) ==
    IF kind \in {"Cancel", "Emergency", "UnvaultEmergency"} /\ i = 0
    THEN "AllPlusAnyoneCanPay" ELSE "All"

\* C4: add_signature on a non-finalized in-range input with a sighash type
\* other than the one recorded at construction returns UnexpectedSighashType
\* and inserts nothing; with the recorded type it succeeds and the raw
\* signature (DER encoding, then the sighash byte) is in the map.
\* (A => B is written B \/ ~A.)
C4_SighashTypeEnforced ==
    [][ret'.call = "add_signature" =>
       \A i \in InRange, t \in SigHashTypes :
          ~IsFinal(psbt.inputs[i + 1]) =>
            IF t # RecordedSighashType(i)
            THEN \/ ret'.err = Some("UnexpectedSighashType") /\ psbt' = psbt
                 \/ \A k \in Keys, s \in Sigs : ~AddSignature(i, k, s, t)
            ELSE \A k \in Keys, s \in Sigs :
                    \/ /\ ret'.ok
                       /\ k \in DOMAIN psbt'.inputs[i + 1].partial_sigs
                       /\ psbt'.inputs[i + 1].partial_sigs[k] =
                             <<s, IF t = "All" THEN 1 ELSE 129>>
                    \/ ~AddSignature(i, k, s, t)]_vars

\* C4's case: an Emergency whose revocation input holds a signature, added
\* with ALL | ANYONECANPAY, and has just refused one
C4_Witness ==
    /\ kind = "Emergency"
    /\ ret.call = "add_signature"
    /\ ret.err = Some("UnexpectedSighashType")
    /\ ~IsFinal(psbt.inputs[1])
    /\ DOMAIN psbt.inputs[1].partial_sigs # {}

(***************************************************************************)
(* Properties of the constructors and the chain builders.                  *)
(***************************************************************************)
Revocations == {"Cancel", "Emergency", "UnvaultEmergency"}

\* what the revocation constructor last called returns for the same spent
\* input, destination and lock time, without a fee-bumping input
WithoutFeebump ==
    CASE made.name = "CancelTransaction::new" ->
            CancelTransaction_new(made.txin, None, made.deposit_descriptor,
                                  made.lock_time, made.debug)
      [] made.name = "EmergencyTransaction::new" ->
            EmergencyTransaction_new(made.txin, None, made.lock_time, made.debug)
      [] made.name = "UnvaultEmergencyTransaction::new" ->
            UnvaultEmergencyTransaction_new(made.txin, None, made.lock_time, made.debug)

\* C5: a Cancel, Emergency or UnvaultEmergency built with a fee-bumping input
\* has the same single output (value and script) as the one built without
\* it for the same spent input, destination and lock time: its value is the
\* spent value less 22 * (weight of the one-input transaction + satisfaction
\* weight of the spent input), and the only difference is the second input.
C5_FeebumpLeavesOutput ==
    (kind \in Revocations /\ IsSome(made.feebump_input)) =>
        LET base == WithoutFeebump
            fb == Unwrap(made.feebump_input)
            tx == psbt.unsigned_tx
        IN  /\ base.ret.ok
            /\ Len(tx.output) = 1
            /\ tx.output = base.psbt.unsigned_tx.output
            /\ tx.output[1].value =
                  made.txin.txout.value - 22 * (376 + made.txin.max_sat_weight)
            /\ psbt.outputs = base.psbt.outputs
            /\ tx.lock_time = base.psbt.unsigned_tx.lock_time
            /\ Len(tx.input) = 2 /\ Len(psbt.inputs) = 2
            /\ tx.input[1] = base.psbt.unsigned_tx.input[1]
            /\ psbt.inputs[1] = base.psbt.inputs[1]
            /\ tx.input[2].previous_output = fb.outpoint
            /\ psbt.inputs[2].witness_utxo = Some(into_txout(fb.txout))

\* C5's case: an Emergency just built with a fee-bumping input
C5_Witness ==
    /\ kind = "Emergency"
    /\ ret.call = "EmergencyTransaction::new"
    /\ IsSome(made.feebump_input)
    /\ Len(psbt.inputs) = 2

\* the fee of the Unvault transaction spending the deposit d
UnvaultFee(d) == 6 * (548 + d.max_sat_weight)

\* C6: transaction_chain_manager succeeds if and only if the deposit value v
\* satisfies v > fee(unvault) + 30000 + 200000, and fails with Dust for every
\* other v.
C6_SucceedsIffAboveDust ==
    made.name = "transaction_chain_manager" =>
        LET v == made.deposit_txin.txout.value
            fee == UnvaultFee(made.deposit_txin)
        IN  /\ ret.ok <=> v > fee + 30000 + 200000
            /\ ~ret.ok => ret.err = Some("Dust")

\* C6 as amended: transaction_chain_manager succeeds if and only if the fee
\* of the Unvault is at most 20000000, v >= fee(unvault) + 30000 + 200000,
\* and the unvault output covers the fee of the Cancel (which a build with
\* debug assertions also wants below 20000000).  It fails with InsaneFees
\* when the fee exceeds 20000000, with Dust when it does not and
\* v < fee(unvault) + 30000 + 200000, and panics otherwise.
C6_SucceedsIffAtLeastDust ==
    made.name = "transaction_chain_manager" =>
        LET v == made.deposit_txin.txout.value
            fee == UnvaultFee(made.deposit_txin)
            cancel_fee == 22 * (376 + made.unvault_descriptor.max_sat_weight)
            unvault_ok == fee <= 20000000 /\ v >= fee + 30000 + 200000
            cancel_ok == /\ cancel_fee <= v - fee - 30000
                         /\ made.debug => cancel_fee < 20000000
        IN  /\ ret.ok <=> (unvault_ok /\ cancel_ok)
            /\ ret.ok => /\ Len(chain) = 2
                         /\ chain[1].unsigned_tx.output[1].value = v - fee - 30000
            /\ fee > 20000000 => ret.err = Some("InsaneFees")
            /\ (fee <= 20000000 /\ v < fee + 30000 + 200000) => ret.err = Some("Dust")
            /\ (unvault_ok /\ ~cancel_ok) => ret.err = Some("panic")

\* C6's case: the chain built from a deposit of exactly the fee, the CPFP
\* value and the dust limit
C6_Witness ==
    /\ made.name = "transaction_chain_manager"
    /\ ret.ok
    /\ made.deposit_txin.txout.value = UnvaultFee(made.deposit_txin) + 30000 + 200000
    /\ chain[1].unsigned_tx.output[1].value = 200000

\* C7: every Unvault transaction UnvaultTransaction::new returns has one
\* input and two outputs, its CPFP output is worth 30000, and unvault output
\* value + 6 * (witness-stripped weight + deposit satisfaction weight)
\* + 30000 equals the deposit value.
C7_UnvaultValue ==
    kind = "Unvault" =>
        LET tx == psbt.unsigned_tx
            d == made.deposit_input
        IN  /\ Len(tx.input) = 1 /\ Len(psbt.inputs) = 1
            /\ Len(tx.output) = 2 /\ Len(psbt.outputs) = 2
            /\ tx.output[1].script_pubkey = to_v0_p2wsh(made.unvault_descriptor.ws)
            /\ tx.output[2].script_pubkey = to_v0_p2wsh(made.cpfp_descriptor.ws)
            /\ tx.output[2].value = 30000
            /\ tx.output[1].value + 6 * (get_weight(tx) + d.max_sat_weight) + 30000
                  = d.txout.value

\* C7's case: an Unvault just built from a deposit near the dust threshold
C7_Witness ==
    /\ kind = "Unvault"
    /\ ret.call = "UnvaultTransaction::new"
    /\ made.deposit_input.txout.value < BigValue
    /\ psbt.unsigned_tx.output[1].value > 200000

\* C8: for every Cancel, Emergency and UnvaultEmergency built without a
\* fee-bumping input, output value + 22 * (witness-stripped weight of the
\* one-input one-output transaction + satisfaction weight of the spent
\* input) equals the value of the spent input.
C8_RevocationValue ==
    (kind \in Revocations /\ ~IsSome(made.feebump_input)) =>
        LET tx == psbt.unsigned_tx
        IN  /\ Len(tx.input) = 1 /\ Len(tx.output) = 1
            /\ tx.output[1].value + 22 * (get_weight(tx) + made.txin.max_sat_weight)
                  = made.txin.txout.value

\* C8's case: a Cancel just built without a fee-bumping input
C8_Witness ==
    /\ kind = "Cancel"
    /\ ret.call = "CancelTransaction::new"
    /\ ~IsSome(made.feebump_input)
    /\ psbt.unsigned_tx.output[1].value > 0

\* C9: no constructor returns a stakeholder-pre-signed transaction (Unvault,
\* Cancel, Emergency, UnvaultEmergency) whose unvault, deposit or emergency
\* output is worth less than 200000; a revocation whose spent value cannot
\* cover the fee plus 200000 fails with Dust.
C9_NoDustOutput ==
    /\ kind \in Revocations \cup {"Unvault"} =>
            psbt.unsigned_tx.output[1].value >= 200000
    /\ (/\ made.name \in {"CancelTransaction::new", "EmergencyTransaction::new",
                          "UnvaultEmergencyTransaction::new"}
        /\ made.txin.txout.value < 22 * (376 + made.txin.max_sat_weight) + 200000)
            => ret.err = Some("Dust")

\* C10: UnvaultTransaction::new returns InsaneFees whenever the fee exceeds
\* 20000000, whatever the deposit value, and no Unvault it returns pays a
\* fee above 20000000.
C10_InsaneFeesFirst ==
    made.name = "UnvaultTransaction::new" =>
        LET d == made.deposit_input
        IN  /\ UnvaultFee(d) > 20000000 => ret.err = Some("InsaneFees")
            /\ ret.ok =>
                  /\ 6 * (get_weight(psbt.unsigned_tx) + d.max_sat_weight) <= 20000000
                  /\ d.txout.value - psbt.unsigned_tx.output[1].value
                        - psbt.unsigned_tx.output[2].value <= 20000000

\* C10's case: InsaneFees for a deposit that is also too small for the fee,
\* the CPFP value and the dust limit
C10_Witness ==
    /\ made.name = "UnvaultTransaction::new"
    /\ ret.err = Some("InsaneFees")
    /\ made.deposit_input.txout.value
          < UnvaultFee(made.deposit_input) + 30000 + 200000

(***************************************************************************)
(* Properties of the serialization and of the interface.                   *)
(***************************************************************************)
\* the structure is parsed back, as the variant it is wrapped as, from its
\* encoding and from the base64 text of its encoding
RoundTrips ==
    LET from_bytes == from_psbt_serialized(kind, as_psbt_serialized(psbt))
        from_str == from_psbt_str(kind, as_psbt_string(psbt))
    IN  /\ from_bytes.ret.ok /\ from_bytes.psbt = psbt
        /\ from_str.ret.ok /\ from_str.psbt = psbt

\* C11: every structure a constructor returned is parsed back from its
\* encoding, and from the base64 text of its encoding, by the parser of its
\* variant, and the parsed structure equals it.
C11_RoundTrip == kind # "None" => RoundTrips

\* all the inputs have a final witness, or none has
Uniform == \A i, j \in DOMAIN psbt.inputs : IsFinal(psbt.inputs[i]) = IsFinal(psbt.inputs[j])

\* the round trip of the structures that have an input and whose finalize,
\* if called, did not stop half-way
RoundTripWithInputs == (kind # "None" /\ Len(psbt.inputs) > 0 /\ Uniform) => RoundTrips

\* C12: add_signature called twice with the same input index, key and
\* signature: the first call, on a key without signature, returns None; the
\* second returns the bytes the first stored (DER encoding, then the sighash
\* byte) and leaves the signature map as the first left it.
C12_SameSignatureTwice ==
    kind # "None" =>
        \A i \in InRange, k \in Keys, s \in Sigs, t \in SigHashTypes :
            LET first == add_signature(psbt, i, k, s, t)
                second == add_signature(first.psbt, i, k, s, t)
            IN  first.ret.ok =>
                    /\ k \notin DOMAIN psbt.inputs[i + 1].partial_sigs
                            => first.ret.val = None
                    /\ second.ret.ok
                    /\ second.ret.val = Some(<<s, IF t = "All" THEN 1 ELSE 129>>)
                    /\ second.psbt.inputs[i + 1].partial_sigs
                            = first.psbt.inputs[i + 1].partial_sigs
                    /\ second.psbt = first.psbt

\* C12's case: the last add_signature call returned the bytes a previous
\* call stored for the key, and they are still the ones in the map
C12_Witness ==
    /\ ret.call = "add_signature"
    /\ ret.ok
    /\ IsSome(ret.val)
    /\ \E i \in DOMAIN psbt.inputs :
          \E k \in DOMAIN psbt.inputs[i].partial_sigs :
              /\ Cardinality(DOMAIN psbt.inputs[i].partial_sigs) = 1
              /\ ret.val = Some(psbt.inputs[i].partial_sigs[k])

\* C13: in every reachable state of a structure with inputs, is_finalized()
\* is true if and only if every input carries a final witness.
C13_FinalizedIffAllFinal ==
    (kind # "None" /\ Len(psbt.inputs) > 0) =>
        (is_finalized(psbt) <=> \A i \in DOMAIN psbt.inputs : IsFinal(psbt.inputs[i]))

\* C14: once a structure is constructed, a step of any operation of the
\* interface other than add_signature and finalize (the signature hashes,
\* is_finalizable, is_finalized, is_valid, verify_input, the serializations,
\* hex, the access to the inner transaction) leaves every field of the
\* structure unchanged.
C14_OnlySignerAndFinalizerMutate ==
    [][(kind # "None" /\ ret'.call \notin {"add_signature", "finalize"})
          => psbt' = psbt]_vars

(***************************************************************************)
(* Properties of the parsers.                                              *)
(***************************************************************************)
\* the indexes of the non-final inputs of p that spend an output of the kind
NonFinalSpending(p, spk_kind) ==
    {i \in InputsSpending(p.inputs, spk_kind) : ~IsFinal(p.inputs[i])}

\* What a Cancel, an Emergency or an UnvaultEmergency requires of its
\* inputs: the errors of the requirements that p violates.
RevocationDefects(p) ==
    LET n == Len(p.inputs)
        wsh == NonFinalSpending(p, "p2wsh")
        wpkh == NonFinalSpending(p, "p2wpkh")
    IN  (IF n < 1 \/ n > 2 THEN {"InvalidInputCount"} ELSE {})
        \cup (IF InputsSpending(p.inputs, "p2wsh") = {}
              THEN {"MissingRevocationInput"} ELSE {})
        \cup (IF n = 2 /\ InputsSpending(p.inputs, "p2wpkh") = {}
              THEN {"MissingFeeBumpingInput"} ELSE {})
        \cup (IF \/ \E i \in wsh : p.inputs[i].sighash_type # Some("AllPlusAnyoneCanPay")
                 \/ n = 2 /\ \E i \in wpkh : p.inputs[i].sighash_type # Some("All")
              THEN {"InvalidSighashType"} ELSE {})
        \cup (IF \E i \in wsh : ~IsSome(p.inputs[i].witness_script)
              THEN {"MissingInWitnessScript"} ELSE {})
        \cup (IF \E i \in wsh :
                    /\ IsSome(p.inputs[i].witness_script)
                    /\ to_v0_p2wsh(Unwrap(p.inputs[i].witness_script))
                         # Unwrap(p.inputs[i].witness_utxo).script_pubkey
              THEN {"InvalidInWitnessScript"} ELSE {})
        \cup (IF n = 2 /\ \E i \in wpkh : IsSome(p.inputs[i].witness_script)
              THEN {"InvalidInputField"} ELSE {})

\* What an Unvault or a Cancel requires of its outputs: the errors of the
\* requirements that p violates.
OutputDefects(p) ==
    (IF \E o \in DOMAIN p.outputs : ~IsSome(p.outputs[o].witness_script)
     THEN {"MissingOutWitnessScript"} ELSE {})
    \cup (IF \E o \in DOMAIN p.outputs : IsSome(p.outputs[o].redeem_script)
          THEN {"InvalidOutputField"} ELSE {})
    \cup (IF \E o \in DOMAIN p.outputs :
                /\ IsSome(p.outputs[o].witness_script)
                /\ to_v0_p2wsh(Unwrap(p.outputs[o].witness_script))
                     # p.unsigned_tx.output[o].script_pubkey
          THEN {"InvalidOutWitnessScript"} ELSE {})

\* a parser was called on a structure that passes the checks common to all
\* the variants
ParsedPastCommon ==
    /\ made.name = "from_raw_psbt"
    /\ psbt_common_sanity_checks(made.candidate).ok

\* C15: a decoded structure is accepted as a Cancel, an Emergency or an
\* UnvaultEmergency only if it has one or two inputs, one of them spending
\* a P2WSH output and (unless final) declaring ALL | ANYONECANPAY and the
\* witness script of that output, the other one, if any, spending a P2WPKH
\* output and (unless final) declaring ALL and no witness script; a
\* structure violating this is rejected, with the error of a requirement
\* it violates.
C15_RevocationInputs ==
    (/\ ParsedPastCommon
     /\ made.variant \in {"Cancel", "Emergency", "UnvaultEmergency"}
     /\ Len(made.candidate.outputs) = 1
     /\ made.variant = "Cancel" => OutputDefects(made.candidate) = {})
        => /\ ret.ok <=> RevocationDefects(made.candidate) = {}
           /\ ~ret.ok => Unwrap(ret.err) \in RevocationDefects(made.candidate)

\* C15's case: a structure with a non-final revocation input and a
\* non-final fee-bumping input was accepted
C15_Witness ==
    /\ ParsedPastCommon
    /\ made.variant \in {"Cancel", "Emergency", "UnvaultEmergency"}
    /\ Len(made.candidate.inputs) = 2
    /\ ret.ok
    /\ ~IsFinal(psbt.inputs[1]) /\ ~IsFinal(psbt.inputs[2])

\* the input checks of the variant find nothing wrong with p
InputsAccepted(variant, p) ==
    IF variant = "Cancel" THEN RevocationDefects(p) = {}
    ELSE Len(p.inputs) = 1 /\ check_all_input(p.inputs[1]).ok

\* the number of outputs of a variant whose parser checks the outputs
OutputCount(variant) == IF variant = "Unvault" THEN 2 ELSE 1

\* C16: a decoded structure is accepted as an Unvault only with exactly one
\* input and two outputs, as a Cancel only with exactly one output, and in
\* both cases only if every output declares a witness script whose hash is
\* the script pubkey of the output, and no redeem script; a structure
\* violating this is rejected, with InvalidOutputCount, InvalidInputCount
\* or the error of the output requirement it violates.
C16_UnvaultCancelOutputs ==
    (ParsedPastCommon /\ made.variant \in {"Unvault", "Cancel"}) =>
        LET p == made.candidate
            count_ok == Len(p.outputs) = OutputCount(made.variant)
        IN  /\ ret.ok => /\ count_ok
                         /\ made.variant = "Unvault" => Len(p.inputs) = 1
                         /\ OutputDefects(p) = {}
            /\ ~count_ok => ret.err = Some("InvalidOutputCount")
            /\ (count_ok /\ made.variant = "Unvault" /\ Len(p.inputs) # 1)
                    => ret.err = Some("InvalidInputCount")
            /\ (count_ok /\ OutputDefects(p) # {}) => ~ret.ok
            /\ (count_ok /\ OutputDefects(p) # {} /\ InputsAccepted(made.variant, p))
                    => Unwrap(ret.err) \in OutputDefects(p)

\* C16's case: an Unvault with its two outputs was accepted
C16_Witness ==
    /\ ParsedPastCommon
    /\ made.variant = "Unvault"
    /\ ret.ok
    /\ Len(psbt.outputs) = 2
    /\ Len(psbt.inputs) = 1

\* the error of the first field-level requirement of the common checks the
\* input violates, "" if it violates none
InputDefect(input) ==
    IF ~IsSome(input.witness_utxo) THEN "MissingWitnessUtxo"
    ELSE IF \/ Unwrap(input.witness_utxo).script_pubkey.kind \notin {"p2wsh", "p2wpkh"}
            \/ IsSome(input.non_witness_utxo)
            \/ IsSome(input.redeem_script)
         THEN "InvalidInputField"
    ELSE ""

\* the version is the expected one, and the PSBT has one input and one
\* output map for each input and output of the transaction
ShapeAccepted(p) ==
    /\ p.unsigned_tx.version = 2
    /\ Len(p.unsigned_tx.input) = Len(p.inputs)
    /\ Len(p.unsigned_tx.output) = Len(p.outputs)

\* one input has a final witness and another has none, or an input has a
\* final witness and still a witness script
MixedFinality(inputs) ==
    \/ \E i, j \in DOMAIN inputs : IsFinal(inputs[i]) /\ ~IsFinal(inputs[j])
    \/ \E i \in DOMAIN inputs : IsFinal(inputs[i]) /\ IsSome(inputs[i].witness_script)

\* C17: of the structures that have no other defect for the common checks,
\* every parser rejects with PartiallyFinalized those in which one input
\* has a final witness and another has none, and those with an input that
\* has both a final witness and a witness script; those whose inputs are
\* all final (without witness script) or all non-final pass the check.
C17_PartiallyFinalized ==
    (/\ made.name = "from_raw_psbt"
     /\ ShapeAccepted(made.candidate)
     /\ \A i \in DOMAIN made.candidate.inputs : InputDefect(made.candidate.inputs[i]) = "")
        => /\ MixedFinality(made.candidate.inputs) => ret.err = Some("PartiallyFinalized")
           /\ ~MixedFinality(made.candidate.inputs)
                => /\ ret.err # Some("PartiallyFinalized")
                   /\ psbt_common_sanity_checks(made.candidate).ok

\* C17's case: a structure whose first input only is final was rejected
C17_Witness ==
    /\ made.name = "from_raw_psbt"
    /\ Len(made.candidate.inputs) = 2
    /\ IsFinal(made.candidate.inputs[1])
    /\ ~IsFinal(made.candidate.inputs[2])
    /\ ~IsSome(made.candidate.inputs[1].witness_script)
    /\ ret.err = Some("PartiallyFinalized")

\* C18: every parser rejects, whatever the variant requires, a structure
\* with a version other than 2 with InvalidTransactionVersion; otherwise one
\* whose numbers of PSBT inputs or outputs differ from the transaction's
\* with InputCountMismatch or OutputCountMismatch; otherwise one with an
\* input without witness UTXO with MissingWitnessUtxo, and one with an
\* input whose previous script is neither P2WSH nor P2WPKH, or that has a
\* non-witness UTXO or a redeem script, with InvalidInputField (the first
\* such input decides, if the inputs before it do not mix final and
\* non-final ones).
C18_CommonChecksFirst ==
    made.name = "from_raw_psbt" =>
        LET p == made.candidate
            defective == {i \in DOMAIN p.inputs : InputDefect(p.inputs[i]) # ""}
            first == CHOOSE i \in defective : \A j \in defective : i <= j
        IN  IF p.unsigned_tx.version # 2
            THEN ret.err = Some("InvalidTransactionVersion")
            ELSE IF Len(p.unsigned_tx.input) # Len(p.inputs)
            THEN ret.err = Some("InputCountMismatch")
            ELSE IF Len(p.unsigned_tx.output) # Len(p.outputs)
            THEN ret.err = Some("OutputCountMismatch")
            ELSE IF defective # {}
            THEN \/ ret.err = Some(InputDefect(p.inputs[first]))
                 \/ MixedFinality(SubSeq(p.inputs, 1, first - 1))
            ELSE ret.err \notin {Some("InvalidTransactionVersion"),
                                 Some("InputCountMismatch"),
                                 Some("OutputCountMismatch"),
                                 Some("MissingWitnessUtxo")}

\* C18's case: a structure with the wrong version and with as many outputs
\* as no variant but the Unvault accepts was parsed as a Cancel and
\* rejected for its version
C18_Witness ==
    /\ made.name = "from_raw_psbt"
    /\ made.variant = "Cancel"
    /\ Len(made.candidate.outputs) = 2
    /\ made.candidate.unsigned_tx.version # 2
    /\ ret.err = Some("InvalidTransactionVersion")

(***************************************************************************)
(* Properties of the Spend constructor and of the chain builders.          *)
(***************************************************************************)
\* C19: the Spend returned by SpendTransaction::new has the given inputs, in
\* the given order; its output 0 pays to the CPFP script
\* 2 * 32 * (weight of the transaction without witness + sum of the maximum
\* satisfaction weights of the inputs); the outputs after it are the given
\* ones, in the given order, with their values.
C19_SpendLayout ==
    (made.name = "SpendTransaction::new" /\ kind = "Spend") =>
        LET tx == psbt.unsigned_tx
            ins == made.unvault_inputs
            outs == made.spend_txouts
        IN  /\ Len(tx.input) = Len(ins)
            /\ \A i \in DOMAIN ins :
                  /\ tx.input[i].previous_output = ins[i].outpoint
                  /\ tx.input[i].sequence = ins[i].sequence
                  /\ psbt.inputs[i].witness_utxo = Some(into_txout(ins[i].txout))
            /\ Len(tx.output) = Len(outs) + 1
            /\ tx.output[1].script_pubkey = to_v0_p2wsh(made.cpfp_descriptor.ws)
            /\ tx.output[1].value = 2 * 32 * (get_weight(tx) + SumSatWeights(ins))
            /\ \A o \in DOMAIN outs :
                  /\ tx.output[o + 1].script_pubkey = outs[o].script_pubkey
                  /\ tx.output[o + 1].value = outs[o].value

\* C19's case: a Spend of two unvault outputs with two destinations, the
\* first of which pays to the CPFP script as output 0 does
C19_Witness ==
    /\ made.name = "SpendTransaction::new"
    /\ kind = "Spend"
    /\ Len(psbt.inputs) = 2
    /\ Len(psbt.outputs) = 3
    /\ psbt.unsigned_tx.output[2].script_pubkey = psbt.unsigned_tx.output[1].script_pubkey
    /\ psbt.unsigned_tx.output[2].value # psbt.unsigned_tx.output[1].value

\* the deposits a chain builder was called with
ChainDeposits ==
    IF made.name = "spend_tx_from_deposits" THEN made.deposit_txins
    ELSE <<made.deposit_txin>>

\* the number of transactions each chain builder returns
ChainLength ==
    CASE made.name = "transaction_chain_manager" -> 2
      [] made.name = "transaction_chain" -> 4
      [] made.name = "spend_tx_from_deposits" -> 1

\* the error of the Unvault of a deposit: InsaneFees if its fee exceeds
\* 20000000, Dust if the deposit does not cover the fee, the CPFP output and
\* the dust limit, "" if it is created
UnvaultError(d) ==
    IF UnvaultFee(d) > 20000000 THEN "InsaneFees"
    ELSE IF d.txout.value < UnvaultFee(d) + 30000 + 200000 THEN "Dust"
    ELSE ""

\* C20: transaction_chain_manager, transaction_chain and
\* spend_tx_from_deposits return the complete set of transactions or none:
\* when the Unvault of a deposit fails with Dust or InsaneFees, that error
\* (of the first such deposit) is returned and no transaction is; a call
\* that does not succeed returns no transaction; one that succeeds returns
\* all of them.
C20_AllOrError ==
    made.name \in {"transaction_chain_manager", "transaction_chain",
                    "spend_tx_from_deposits"} =>
        LET failing == {i \in DOMAIN ChainDeposits : UnvaultError(ChainDeposits[i]) # ""}
            first == CHOOSE i \in failing : \A j \in failing : i <= j
        IN  /\ failing # {} =>
                    /\ ret.err = Some(UnvaultError(ChainDeposits[first]))
                    /\ chain = <<>>
            /\ ~ret.ok => chain = <<>>
            /\ ret.ok => /\ Len(chain) = ChainLength
                         /\ \A n \in DOMAIN chain : chain[n] # NoPsbt
            /\ (ret.ok /\ made.name = "spend_tx_from_deposits")
                    => Len(chain[1].inputs) = Len(made.deposit_txins)

\* C20's case: the Unvault of the second of two deposits fails with Dust
\* and spend_tx_from_deposits returns that error
C20_Witness ==
    /\ made.name = "spend_tx_from_deposits"
    /\ Len(made.deposit_txins) = 2
    /\ UnvaultError(made.deposit_txins[1]) = ""
    /\ UnvaultError(made.deposit_txins[2]) = "Dust"
    /\ ret.err = Some("Dust")
    /\ chain = <<>>

FinalizeEnsures(p) ==
    LET r == finalize(p)
    IN  r.ret.ok =>
            /\ \A i \in DOMAIN r.psbt.inputs :
                  /\ IsSome(r.psbt.inputs[i].final_script_witness)
                  /\ verify_input(r.psbt, i - 1).ok
            /\ is_finalized(r.psbt)
            /\ is_valid(r.psbt)

\* C22: finalize(ctx) returns Ok only if every input got a witness and
\* verify_input accepted every input, and it leaves a structure for which
\* is_finalized() and is_valid(ctx) are true; is_valid(ctx) is false in every
\* state where is_finalized() is false.
C22_FinalizeOkIsValid ==
    kind # "None" =>
        /\ FinalizeEnsures(psbt)
        /\ ~is_finalized(psbt) => ~is_valid(psbt)

(***************************************************************************)
(* C23: the inputs of a structure as its constructor returns it            *)
(***************************************************************************)
\* every input of p, a structure of the given variant, records its previous
\* output and the sighash type of its role, and has neither a partial
\* signature nor a final witness
FreshInputs(p, variant) ==
    \A i \in DOMAIN p.inputs :
        /\ IsSome(p.inputs[i].witness_utxo)
        /\ p.inputs[i].sighash_type =
              Some(IF variant \in {"Cancel", "Emergency", "UnvaultEmergency"} /\ i = 1
                   THEN "AllPlusAnyoneCanPay" ELSE "All")
        /\ p.inputs[i].partial_sigs = EmptyMap
        /\ p.inputs[i].final_script_witness = None

\* the variants of the transactions transaction_chain returns, in order
ChainVariants == <<"Unvault", "Cancel", "Emergency", "UnvaultEmergency">>

\* C23: every structure returned by a constructor (directly, or as part of a
\* chain) records on every input the previous output and a sighash type: ALL
\* for the Unvault input and every Spend input, ALL | ANYONECANPAY for the
\* revocation input (index 0) of a Cancel, Emergency or UnvaultEmergency, ALL
\* for their fee-bumping input (index 1) when there is one; no input starts
\* with partial signatures or a final witness.
C23_FreshInputs ==
    /\ kind # "None" => FreshInputs(psbt, kind)
    /\ made.name \in {"transaction_chain_manager", "transaction_chain"} =>
          \A n \in DOMAIN chain : FreshInputs(chain[n], ChainVariants[n])
    /\ made.name = "spend_tx_from_deposits" =>
          \A n \in DOMAIN chain : FreshInputs(chain[n], "Spend")

\* C23's case: a Cancel constructed with a fee-bumping input
C23_Witness ==
    /\ made.name = "CancelTransaction::new"
    /\ kind = "Cancel"
    /\ Len(psbt.inputs) = 2
    /\ psbt.inputs[1].sighash_type = Some("AllPlusAnyoneCanPay")
    /\ psbt.inputs[2].sighash_type = Some("All")

(***************************************************************************)
(* C24: the outcomes of the signature hashes                               *)
(***************************************************************************)
\* what the two signature hashes return on p for every index up to one past
\* the inputs and every sighash type: OutOfBounds past the inputs; for an
\* input, MissingWitnessScript from signature_hash_internal_input if it has
\* no witness script and a hash if it has one, a hash from
\* signature_hash_feebump_input; never a panic
SigHashOutcomes(p) ==
    \A i \in 0 .. Len(p.inputs), t \in SigHashTypes :
        LET internal == signature_hash_internal_input(p, i, t)
            feebump == signature_hash_feebump_input(p, i, <<"p2pkh", FeebumpKey>>, t)
        IN  /\ internal.err # Some("panic")
            /\ feebump.err # Some("panic")
            /\ IF i + 1 \notin DOMAIN p.inputs
               THEN /\ internal.err = Some("OutOfBounds")
                    /\ feebump.err = Some("OutOfBounds")
               ELSE /\ feebump.ok /\ IsSome(feebump.val)
                    /\ IF IsSome(p.inputs[i + 1].witness_script)
                       THEN internal.ok /\ IsSome(internal.val)
                       ELSE internal.err = Some("MissingWitnessScript")

C25_SkeletonUnchanged ==
    [][ret'.call \in {"add_signature", "finalize"} =>
            /\ psbt'.unsigned_tx = psbt.unsigned_tx
            /\ DOMAIN psbt'.inputs = DOMAIN psbt.inputs
            /\ \A i \in DOMAIN psbt.inputs :
                  /\ psbt'.inputs[i].witness_utxo = psbt.inputs[i].witness_utxo
                  /\ ret'.call = "add_signature" =>
                        \A t \in SigHashTypes :
                            signature_hash_internal_input(psbt', i - 1, t)
                                = signature_hash_internal_input(psbt, i - 1, t)]_vars

\* C25's case: a structure with two inputs, signed on both, was finalized
C25_Witness ==
    /\ ret.call = "finalize"
    /\ ret.ok
    /\ Len(psbt.inputs) = 2
    /\ nsigs > 1
    /\ \A i \in DOMAIN psbt.inputs : IsSome(psbt.inputs[i].final_script_witness)

(***************************************************************************)
(* C26: add_signature meets none of its assertions                         *)
(***************************************************************************)
\* what add_signature expects of the inputs of p that are not finalized:
\* the previous output, no non-witness UTXO, no redeem script, a sighash
\* type, and a previous output paying to the P2WSH of the witness script if
\* there is one, to a P2WPKH otherwise
SignerExpectations(p) ==
    \A i \in DOMAIN p.inputs :
        ~IsSome(p.inputs[i].final_script_witness) =>
            /\ IsSome(p.inputs[i].witness_utxo)
            /\ ~IsSome(p.inputs[i].non_witness_utxo)
            /\ ~IsSome(p.inputs[i].redeem_script)
            /\ IsSome(p.inputs[i].sighash_type)
            /\ IF IsSome(p.inputs[i].witness_script)
               THEN Unwrap(p.inputs[i].witness_utxo).script_pubkey
                        = to_v0_p2wsh(Unwrap(p.inputs[i].witness_script))
               ELSE is_v0_p2wpkh(Unwrap(p.inputs[i].witness_utxo).script_pubkey)

\* C26: on a structure a constructor returned or a parser accepted, after
\* any add_signature and finalize calls, the inputs that are not finalized
\* are as add_signature expects them, and add_signature panics for no
\* input index, key, signature and sighash type.
C26_AddSignatureNeverPanics ==
    kind # "None" =>
        /\ SignerExpectations(psbt)
        /\ \A i \in 0 .. Len(psbt.inputs), k \in Keys, s \in Sigs, t \in SigHashTypes :
                add_signature(psbt, i, k, s, t).ret.err # Some("panic")
        /\ ret.call = "add_signature" => ret.err # Some("panic")

\* C26's case: a structure whose inputs were swapped, the fee-bumping input
\* first, was accepted and then signed on both inputs
C26_Witness ==
    /\ made.name = "from_raw_psbt"
    /\ Len(psbt.inputs) = 2
    /\ ~IsSome(psbt.inputs[1].witness_script)
    /\ IsSome(psbt.inputs[2].witness_script)
    /\ psbt.inputs[1].partial_sigs # EmptyMap
    /\ psbt.inputs[2].partial_sigs # EmptyMap
    /\ ret.call = "add_signature"
    /\ ret.ok

(***************************************************************************)
(* C27: the revocation fee against the unvault output                      *)
(***************************************************************************)
\* the reference to the unvault output of the Unvault just constructed
MadeUnvaultTxIn ==
    spend_unvault_txin(psbt, made.unvault_descriptor, UnvaultCsv).txin

\* C27: for every Unvault returned by UnvaultTransaction::new, the value of
\* its unvault output is at least the revocation fee
\* 22 * (weight without witness + maximum satisfaction weight of the unvault
\* input), and neither CancelTransaction::new nor
\* UnvaultEmergencyTransaction::new panics on that output, with or without
\* debug assertions.
C27_UnvaultCoversRevocationFee ==
    (made.name = "UnvaultTransaction::new" /\ kind = "Unvault") =>
        /\ MadeUnvaultTxIn.txout.value >=
              RevocationFees(MadeUnvaultTxIn,
                             DescTxOut(U64_MAX, DepositDescriptor(224)), made.lock_time)
        /\ MadeUnvaultTxIn.txout.value >=
              RevocationFees(MadeUnvaultTxIn, EmergencyTxOut(U64_MAX), made.lock_time)
        /\ \A debug \in BOOLEAN :
              /\ CancelTransaction_new(MadeUnvaultTxIn, None, DepositDescriptor(224),
                                       made.lock_time, debug).ret.err # Some("panic")
              /\ UnvaultEmergencyTransaction_new(MadeUnvaultTxIn, None,
                                       made.lock_time, debug).ret.err # Some("panic")

(***************************************************************************)
(* C28: the signature hash of the revocation input and the fee-bumping     *)
(* input                                                                   *)
(***************************************************************************)
\* C28: the signature hash of the revocation input (index 0) for
\* ALL | ANYONECANPAY is a hash, and the same one, on the revocation
\* transaction built with a fee-bumping input and on the one built without
\* it from the same spent input, destination and lock time: a signature
\* made before the fee-bumping input is attached signs the transaction
\* that has it.
C28_SameSigHashWithFeebump ==
    (kind \in Revocations /\ IsSome(made.feebump_input)) =>
        LET with == signature_hash_internal_input(psbt, 0, "AllPlusAnyoneCanPay")
            without == signature_hash_internal_input(WithoutFeebump.psbt, 0,
                                                     "AllPlusAnyoneCanPay")
        IN  /\ WithoutFeebump.ret.ok
            /\ with.ok /\ IsSome(with.val)
            /\ with = without

\* C28's case: a Cancel built with a fee-bumping input, whose revocation
\* input has the ALL | ANYONECANPAY hash of the Cancel built without it, and
\* another ALL hash
C28_Witness ==
    /\ kind = "Cancel"
    /\ IsSome(made.feebump_input)
    /\ signature_hash_internal_input(psbt, 0, "AllPlusAnyoneCanPay")
            = signature_hash_internal_input(WithoutFeebump.psbt, 0, "AllPlusAnyoneCanPay")
    /\ signature_hash_internal_input(psbt, 0, "All").ok
    /\ signature_hash_internal_input(psbt, 0, "All").val
            # signature_hash_internal_input(WithoutFeebump.psbt, 0, "All").val

(***************************************************************************)
(* C29: the references to the outputs of an Unvault                        *)
(***************************************************************************)
\* the revocation transaction rev spends, as its input 0, output 0 of the
\* Unvault u: its outpoint, its value, its script
SpendsUnvaultOutput(rev, u) ==
    /\ rev.unsigned_tx.input[1].previous_output = OutPoint(Txid(u.unsigned_tx), 0)
    /\ rev.inputs[1].witness_utxo = Some(u.unsigned_tx.output[1])

\* C29: on every Unvault returned by UnvaultTransaction::new,
\* spend_unvault_txin and cpfp_txin, called with the descriptors it was built
\* with, do not panic and return a reference whose outpoint is the txid of
\* the transaction and the index of the output paying to the descriptor
\* (0, 1), and whose previous output has the value of that output (the
\* unvault value: the deposit less the fee and 30000; 30000); the Cancel and
\* the UnvaultEmergency a chain builder returns spend that unvault output,
\* with that value.
C29_UnvaultOutputReferences ==
    /\ (made.name = "UnvaultTransaction::new" /\ kind = "Unvault") =>
          LET tx == psbt.unsigned_tx
              unvault == spend_unvault_txin(psbt, made.unvault_descriptor, UnvaultCsv)
              cpfp == cpfp_txin(psbt, made.cpfp_descriptor)
          IN  /\ unvault.ret.ok /\ cpfp.ret.ok
              /\ tx.output[1].script_pubkey = to_v0_p2wsh(made.unvault_descriptor.ws)
              /\ unvault.txin.outpoint = OutPoint(Txid(tx), 0)
              /\ unvault.txin.sequence = UnvaultCsv
              /\ into_txout(unvault.txin.txout) = tx.output[1]
              /\ unvault.txin.txout.value =
                    made.deposit_input.txout.value - UnvaultFee(made.deposit_input) - 30000
              /\ tx.output[2].script_pubkey = to_v0_p2wsh(made.cpfp_descriptor.ws)
              /\ cpfp.txin.outpoint = OutPoint(Txid(tx), 1)
              /\ into_txout(cpfp.txin.txout) = tx.output[2]
              /\ cpfp.txin.txout.value = 30000
    /\ (made.name \in {"transaction_chain_manager", "transaction_chain"} /\ ret.ok) =>
          /\ SpendsUnvaultOutput(chain[2], chain[1])
          /\ chain[2].unsigned_tx.input[1].sequence = UnvaultCsv
          /\ made.name = "transaction_chain" => SpendsUnvaultOutput(chain[4], chain[1])

\* C29's case: transaction_chain returned its four transactions
C29_Witness ==
    /\ made.name = "transaction_chain"
    /\ ret.ok
    /\ Len(chain) = 4
    /\ SpendsUnvaultOutput(chain[4], chain[1])
    /\ chain[1].unsigned_tx.output[1].value > 30000

(***************************************************************************)
(* C30: the structures the variant parsers have in common                  *)
(***************************************************************************)
\* the parser of the variant accepts the candidate just parsed
AcceptedAs(variant) == from_psbt(variant, made.candidate).ret.ok

\* C30: the Emergency and the UnvaultEmergency parsers accept the same
\* decoded structures; a structure accepted as a Cancel is accepted as an
\* Emergency and as an UnvaultEmergency; a structure accepted as an Unvault
\* is accepted as a Spend.
C30_ParsersOverlap ==
    made.name = "from_raw_psbt" =>
        /\ ret.ok = AcceptedAs(made.variant)
        /\ AcceptedAs("Emergency") <=> AcceptedAs("UnvaultEmergency")
        /\ AcceptedAs("Cancel") => AcceptedAs("Emergency") /\ AcceptedAs("UnvaultEmergency")
        /\ AcceptedAs("Unvault") => AcceptedAs("Spend")

\* C30's case: a structure with a fee-bumping input accepted as a Cancel,
\* which the Emergency and UnvaultEmergency parsers accept too and the
\* Unvault and Spend parsers reject
C30_Witness ==
    /\ made.name = "from_raw_psbt"
    /\ made.variant = "Cancel"
    /\ ret.ok
    /\ Len(psbt.inputs) = 2
    /\ AcceptedAs("Emergency") /\ AcceptedAs("UnvaultEmergency")
    /\ ~AcceptedAs("Unvault") /\ ~AcceptedAs("Spend")

====
